---- MODULE Spec2Model ----
(***************************************************************************)
(* Device-affinity and ownership model of the TensorRT wrapper.            *)
(*                                                                         *)
(* Spec      : the synchronous layer (ffi/sync/*.rs, ffi/builder_config.rs)*)
(*             driven by one calling thread.                               *)
(* SpecAsync : the asynchronous facade (builder.rs, runtime.rs) driven by  *)
(*             several callers and the single worker of                    *)
(*             async_cuda::runtime::Future.                                *)
(***************************************************************************)
EXTENDS Integers, Sequences, FiniteSets, TLC

\* ------------------------------------------------------------------ bounds
\* Number of ExecutionContext slots (and the largest `num` of from_engine_many).
MaxCtx == 2
\* Number of Arc<Engine> handles the caller itself may hold.
MaxArcRefs == 2
\* Number of operations each caller of the asynchronous facade issues.
MaxOps == 2
\* Number of optimization profiles a builder creates.
MaxProfiles == 2
\* Number of set_* calls made on one optimization profile.
MaxSets == 2

Devices == {0, 1}
Tensors == {"x", "y"}
\* Device addresses of the caller's buffers (DevicePtr::as_ptr).
Buffers == {16, 32}
CtxIds == 1..MaxCtx

NULL == "null"
CtxNames == <<"ctx1", "ctx2", "ctx3", "ctx4", "ctx5">>
CtxObj(i) == CtxNames[i]
ProfIds == 1..MaxProfiles
ProfNames == <<"prof1", "prof2", "prof3", "prof4">>
ProfObj(i) == ProfNames[i]
Objs == {"builder", "config", "network", "runtime", "engine"}
            \cup {CtxObj(i) : i \in CtxIds} \cup {ProfObj(i) : i \in ProfIds}

VARIABLES
    cur,        \* current device of the calling thread (Device::get / Device::set)
    nat,        \* the native objects: state, destroy count, device of creation
    builder,    \* ffi::sync::builder::Builder { addr, device }
    config,     \* ffi::builder_config::BuilderConfig(ptr)
    network,    \* NetworkDefinition handle
    runtime,    \* ffi::sync::runtime::Runtime { addr, device }
    engine,     \* ffi::sync::engine::Engine { internal, runtime }
    arcRefs,    \* Arc<Engine> handles held by the caller
    ctx,        \* ExecutionContext { internal, device, _parent }
    addr,       \* tensor addresses bound inside each native execution context
    calls,      \* native calls issued by the last operation, in order
    last,       \* the last operation: its inputs and what it returned
    halt,       \* "no", or how the process ended: "panic" / "crash"
    profile,    \* ffi::optimization_profile::OptimizationProfile<'builder>
    attached,   \* profiles the native IBuilderConfig holds, by index
    dimStore,   \* native IOptimizationProfile: Dims per input name and selector
    valStore,   \* native IOptimizationProfile: shape values per input name
    phist,      \* the last call on the profile, after the setter just before it
    setsLeft,   \* set_* calls still to be made
    major,      \* NV_TENSORRT_MAJOR of the build; 0 until an operation that
                \* is compiled differently per version has run
    dtype,      \* the last Engine::io_tensor_type call and what it returned
    fprof,      \* crate::OptimizationProfile<'a> { inner, inner_mut }
    flags,      \* BuilderFlags set on the native IBuilderConfig
    workspace,  \* kWORKSPACE memory pool limit of the native IBuilderConfig
    \* ---- asynchronous facade
    queue,      \* closures submitted to the worker (async_cuda runtime channel)
    work,       \* the closure the worker is executing, or none
    pc,         \* each caller's position: "idle", "awaiting", "calling"
    opsLeft,    \* operations each caller may still issue
    facade,     \* the facade handles each caller holds: Builder, Runtime
    running,    \* native calls in progress: [thread, caller, op, seq]
    done        \* each caller's last completed operation, its thread and
                \* the value the caller got back

profVars == <<profile, attached>>
dimVars == <<dimStore, valStore, phist, setsLeft>>
extVars == <<major, dtype, fprof, flags, workspace>>
syncVars == <<cur, nat, builder, config, network, runtime, engine, arcRefs,
              ctx, addr, calls, last, halt, profile, attached,
              dimStore, valStore, phist, setsLeft,
              major, dtype, fprof, flags, workspace>>
asyncVars == <<queue, work, pc, opsLeft, facade, running, done>>
vars == <<cur, nat, builder, config, network, runtime, engine, arcRefs,
          ctx, addr, calls, last, halt, profile, attached,
          dimStore, valStore, phist, setsLeft,
          major, dtype, fprof, flags, workspace,
          queue, work, pc, opsLeft, facade, running, done>>

\* ------------------------------------------------------- native world steps
\* A handler is the composition of steps on a record
\*   w = [cur, nat, calls, halt, nset]
\* nset counts the Device::set calls of the handler; `fails` is the set of
\* those calls (by position) that the CUDA runtime rejects.

World == [cur |-> cur, nat |-> nat, calls |-> <<>>, halt |-> halt, nset |-> 0]

\* The library itself: the target of the free factory functions.
LIB == "lib"

ObjState(w, obj) ==
    IF obj = NULL THEN "null" ELSE IF obj = LIB THEN "live" ELSE w.nat[obj].st

\* One native call on `obj`, logged with the device current at that moment.
\* A member call through a null pointer is undefined behaviour: the build
\* either crashes there (ub) or carries on.
Call(w, op, obj, name, ptr, ub) ==
    IF w.halt # "no" THEN w
    ELSE [w EXCEPT !.calls = Append(@, [op |-> op, obj |-> obj, cur |-> w.cur,
                                        st |-> ObjState(w, obj),
                                        name |-> name, ptr |-> ptr]),
                   !.halt = IF obj = NULL /\ ub THEN "crash" ELSE @]

\* A native factory call on `on` that returns `ptr` (NULL or a fresh object).
Create(w, op, on, ptr, ub) ==
    LET w1 == Call(w, op, on, "", 0, ub) IN
    IF w1.halt # "no" \/ ptr = NULL THEN w1
    ELSE [w1 EXCEPT !.nat[ptr] = [st |-> "live", destroys |-> 0,
                                  dev |-> w.cur, wrapped |-> FALSE]]

\* A wrapper takes ownership of a raw pointer.
Wrap(w, ptr) ==
    IF w.halt # "no" \/ ptr = NULL THEN w
    ELSE [w EXCEPT !.nat[ptr].wrapped = TRUE]

\* destroy<T>(T*): the destructor (TensorRT > 9) or destroy() of the object.
Destroy(w, obj, ub) ==
    LET w1 == Call(w, "destroy", obj, "", 0, ub) IN
    IF w1.halt # "no" \/ obj = NULL THEN w1
    ELSE [w1 EXCEPT !.nat[obj].st = "destroyed",
                    !.nat[obj].destroys = @ + 1]

\* Device::set(d): makes d current, or fails and leaves the device as it was.
DeviceSet(w, d, fails) ==
    IF w.halt # "no" THEN w
    ELSE IF (w.nset + 1) \in fails
         THEN [w EXCEPT !.nset = @ + 1]
         ELSE [w EXCEPT !.nset = @ + 1, !.cur = d]

\* Whether the latest Device::set of the handler failed.
SetFailed(w, fails) == w.nset \in fails

\* Device::set_or_panic(d): a failed set panics.  The panic ends the calling
\* thread of the model: nothing is issued after it.
DeviceSetOrPanic(w, d, fails) ==
    LET w1 == DeviceSet(w, d, fails) IN
    IF w.halt = "no" /\ SetFailed(w1, fails)
    THEN [w1 EXCEPT !.halt = "panic"] ELSE w1

\* result!(ptr, value): Ok(value) for a non-null pointer, Err(last_error()) for null.
result(ptr) == IF ptr # NULL THEN "ok" ELSE "err"

\* A BuilderConfig without a Drop: the native config is never destroyed.
DropBuilderConfigLeak(w, ub) == w

\* ------------------------------------------------------------- drop glue
\* impl Drop for BuilderConfig: destroy, on whatever device is current.
DropBuilderConfig(w, ub) == Destroy(w, config.addr, ub)

\* impl Drop for Builder: set_or_panic(self.device), then destroy.
DropBuilder(w, fails, ub) ==
    Destroy(DeviceSetOrPanic(w, builder.device, fails), builder.addr, ub)

\* impl Drop for Runtime: set_or_panic(self.device), then destroy.
DropRuntime(w, fails, ub) ==
    Destroy(DeviceSetOrPanic(w, runtime.device, fails), runtime.addr, ub)

\* Engine::device(): the device of the runtime the engine owns.
EngineDevice == runtime.device

\* An Engine whose field `runtime` goes before the native engine is destroyed.
DropEngineRuntimeFirst(w, fails, ub) ==
    Destroy(DeviceSetOrPanic(DropRuntime(w, fails, ub), EngineDevice, fails),
            engine.internal, ub)

\* A Drop for Engine that also destroys the runtime by hand, before the field
\* `runtime` is dropped: the runtime is destroyed twice.
DropEngineAndRuntimeTwice(w, fails, ub) ==
    DropRuntime(DropRuntime(Destroy(DeviceSetOrPanic(w, EngineDevice, fails),
                                    engine.internal, ub), fails, ub), fails, ub)

\* impl Drop for Engine: set_or_panic(self.runtime.device()), destroy the
\* engine, and then the field `runtime` is dropped.
DropEngine(w, fails, ub) ==
    DropRuntime(Destroy(DeviceSetOrPanic(w, EngineDevice, fails),
                        engine.internal, ub), fails, ub)

\* impl Drop for ExecutionContext: set_or_panic(self.device), then destroy.
\* The field `_parent` is released by the caller of this step (ReleaseArc).
DropExecutionContext(w, c, fails, ub) ==
    Destroy(DeviceSetOrPanic(w, c.device, fails), c.internal, ub)

\* ------------------------------------------------------------ operations
NoObj == [st |-> "none", destroys |-> 0, dev |-> 0, wrapped |-> FALSE]
NoCtx == [st |-> "none", internal |-> NULL, device |-> 0, parent |-> FALSE]
NoProfile == [st |-> "none", addr |-> NULL]
NoLast == [op |-> "init", res |-> "none", i |-> 0, n |-> 0,
           names |-> <<>>, bufs |-> <<>>, bindOk |-> <<>>, submitOk |-> FALSE,
           ptrs |-> <<>>, setFailed |-> FALSE, dropSetFailed |-> FALSE,
           inDrop |-> FALSE]
Op(op, res) == [NoLast EXCEPT !.op = op, !.res = res]

\* The handler ran to w and returned: the world and the outcome are committed.
Commit(w, l) ==
    /\ cur' = w.cur
    /\ nat' = w.nat
    /\ calls' = w.calls
    /\ halt' = w.halt
    /\ last' = [l EXCEPT !.res = IF w.halt # "no" THEN w.halt ELSE @]

Running == halt = "no"
FailSets(k) == SUBSET (1..k)
\* When every set of a handler is a set_or_panic only the first failure counts.
PanicSets(k) == {{}} \cup {{j} : j \in 1..k}

\* The caller makes another device current (async_cuda Device::set).
SetCurrentDevice(d) ==
    /\ Running
    /\ d # cur
    /\ cur' = d
    /\ calls' = <<>>
    /\ last' = Op("set_device", "ok")
    /\ UNCHANGED <<nat, builder, config, network, runtime, engine, arcRefs,
                   ctx, addr, halt>>
    /\ UNCHANGED asyncVars
    /\ UNCHANGED dimVars
    /\ UNCHANGED extVars
    /\ UNCHANGED profVars

\* An OptimizationProfile<'builder> keeps the builder mutably borrowed for
\* as long as it lives: nothing else can be called on the builder meanwhile.
LiveProfiles == {i \in ProfIds : profile[i].st = "live"}
BuilderFree == LiveProfiles = {}

\* Builder::new
BuilderNew(ptr, getOk) ==
    /\ Running
    /\ builder.st = "none"
    /\ LET w0 == [World EXCEPT !.halt = IF getOk THEN "no" ELSE "panic"]
           w  == Wrap(Create(w0, "createInferBuilder", LIB, ptr, FALSE), ptr)
       IN /\ Commit(w, Op("Builder::new", result(ptr)))
          /\ builder' = IF w.halt = "no" /\ result(ptr) = "ok"
                         THEN [st |-> "owned", addr |-> ptr, device |-> cur]
                         ELSE builder
    /\ UNCHANGED <<config, network, runtime, engine, arcRefs, ctx, addr>>
    /\ UNCHANGED asyncVars
    /\ UNCHANGED dimVars
    /\ UNCHANGED extVars
    /\ UNCHANGED profVars

\* Builder::config: the pointer is wrapped as it comes, null or not.
BuilderConfigOp(ptr, ub) ==
    /\ Running
    /\ builder.st = "owned"
    /\ BuilderFree
    /\ config.st = "none"
    /\ LET w == Wrap(Create(World, "createBuilderConfig", builder.addr, ptr, ub), ptr)
       IN /\ Commit(w, Op("Builder::config", "ok"))
          /\ config' = IF w.halt = "no"
                        THEN [st |-> "owned", addr |-> ptr] ELSE config
    /\ UNCHANGED <<builder, network, runtime, engine, arcRefs, ctx, addr>>
    /\ UNCHANGED asyncVars
    /\ UNCHANGED dimVars
    /\ UNCHANGED extVars
    /\ UNCHANGED profVars

\* Builder::network_definition(flags): wrapped as it comes.
BuilderNetworkDefinition(ptr, ub) ==
    /\ Running
    /\ builder.st = "owned"
    /\ BuilderFree
    /\ network.st = "none"
    /\ LET w == Wrap(Create(World, "createNetworkV2", builder.addr, ptr, ub), ptr)
       IN /\ Commit(w, Op("Builder::network_definition", "ok"))
          /\ network' = IF w.halt = "no"
                         THEN [st |-> "owned", addr |-> ptr] ELSE network
    /\ UNCHANGED <<builder, config, runtime, engine, arcRefs, ctx, addr>>
    /\ UNCHANGED asyncVars
    /\ UNCHANGED dimVars
    /\ UNCHANGED extVars
    /\ UNCHANGED profVars

\* Builder::build_serialized_network(&mut network, config): the native build,
\* result!, and then `config`, moved into the call, is dropped.
BuilderBuildSerializedNetwork(plan, ub) ==
    /\ Running
    /\ builder.st = "owned"
    /\ BuilderFree
    /\ network.st = "owned"
    /\ config.st = "owned"
    /\ LET w1 == Call(World, "buildSerializedNetwork", builder.addr, "", 0, ub)
           w  == DropBuilderConfig(w1, ub)
       IN /\ Commit(w, Op("Builder::build_serialized_network", result(plan)))
          /\ config' = IF w.halt = "no" THEN [config EXCEPT !.st = "dropped"]
                        ELSE config
    /\ UNCHANGED <<builder, network, runtime, engine, arcRefs, ctx, addr>>
    /\ UNCHANGED asyncVars
    /\ UNCHANGED dimVars
    /\ UNCHANGED extVars
    /\ UNCHANGED profVars

\* The caller drops its BuilderConfig.
BuilderConfigDrop(ub) ==
    /\ Running
    /\ config.st = "owned"
    /\ LET w == DropBuilderConfig(World, ub)
       IN /\ Commit(w, [Op("drop BuilderConfig", "ok") EXCEPT !.inDrop = TRUE])
          /\ config' = IF w.halt = "no" THEN [config EXCEPT !.st = "dropped"]
                        ELSE config
    /\ UNCHANGED <<builder, network, runtime, engine, arcRefs, ctx, addr>>
    /\ UNCHANGED asyncVars
    /\ UNCHANGED dimVars
    /\ UNCHANGED extVars
    /\ UNCHANGED profVars

\* The caller drops its Builder.
BuilderDrop(fails, ub) ==
    /\ Running
    /\ builder.st = "owned"
    /\ BuilderFree
    /\ LET w == DropBuilder(World, fails, ub)
       IN /\ Commit(w, [Op("drop Builder", "ok") EXCEPT !.inDrop = TRUE])
          /\ builder' = IF w.halt = "no" THEN [builder EXCEPT !.st = "dropped"]
                         ELSE builder
    /\ UNCHANGED <<config, network, runtime, engine, arcRefs, ctx, addr>>
    /\ UNCHANGED asyncVars
    /\ UNCHANGED dimVars
    /\ UNCHANGED extVars
    /\ UNCHANGED profVars

\* ------------------------------------------------- builder config setters
\* A with_strict_types that sets kSTRICT_TYPES in every build.
StrictTypesFlagsAnyVersion(v) == <<"STRICT_TYPES">>

\* The setFlag calls of with_strict_types in a build for major version v:
\* #if NV_TENSORRT_MAJOR >= 10 .. #else .. #endif
StrictTypesFlags(v) ==
    IF v >= 10
    THEN <<"PREFER_PRECISION_CONSTRAINTS", "DIRECT_IO", "REJECT_EMPTY_ALGORITHMS">>
    ELSE <<"STRICT_TYPES">>

\* The setFlag call of each of the other flag setters.
SetterFlags(setter) ==
    CASE setter = "with_version_compability" -> <<"VERSION_COMPATIBLE">>
      [] setter = "with_exclude_lean_runtime" -> <<"EXCLUDE_LEAN_RUNTIME">>
      [] setter = "with_fp16" -> <<"FP16">>
      [] setter = "with_int8" -> <<"INT8">>

\* ((IBuilderConfig*) internal)->setFlag(f), for the first k flags of fs.
RECURSIVE SetFlags(_, _, _, _)
SetFlags(w, fs, k, ub) ==
    IF k = 0 THEN w
    ELSE Call(SetFlags(w, fs, k - 1, ub), "setFlag", config.addr, fs[k], 0, ub)

\* with_X(mut self) -> Self for the flags fs: the calls, and `self` returned.
WithFlags(setter, fs, ub) ==
    /\ Running
    /\ config.st = "owned"
    /\ LET w == SetFlags(World, fs, Len(fs), ub)
       IN /\ Commit(w, Op(setter, "ok"))
          /\ flags' = IF w.halt = "no" /\ config.addr # NULL
                       THEN flags \cup {fs[k] : k \in 1..Len(fs)} ELSE flags
    /\ UNCHANGED <<builder, config, network, runtime, engine, arcRefs, ctx, addr>>
    /\ UNCHANGED <<asyncVars, dimVars, profVars, dtype, fprof, workspace>>

\* BuilderConfig::with_strict_types
ConfigWithStrictTypes(v, ub) ==
    /\ major \in {0, v}
    /\ major' = v
    /\ WithFlags("with_strict_types", StrictTypesFlags(v), ub)

\* BuilderConfig::with_version_compability / with_exclude_lean_runtime /
\* with_fp16 / with_int8
ConfigWithFlag(setter, ub) ==
    /\ WithFlags(setter, SetterFlags(setter), ub)
    /\ UNCHANGED major

\* BuilderConfig::with_max_workspace_size(size)
ConfigWithMaxWorkspaceSize(size, ub) ==
    /\ Running
    /\ config.st = "owned"
    /\ LET w == Call(World, "setMemoryPoolLimit", config.addr, "WORKSPACE", size, ub)
       IN /\ Commit(w, Op("with_max_workspace_size", "ok"))
          /\ workspace' = IF w.halt = "no" /\ config.addr # NULL THEN size ELSE workspace
    /\ UNCHANGED <<builder, config, network, runtime, engine, arcRefs, ctx, addr>>
    /\ UNCHANGED <<asyncVars, dimVars, profVars, major, dtype, fprof, flags>>

\* --------------------------------------------------- optimization profiles
\* Builder::optimization_profile: createOptimizationProfile, result!, wrap.
CreateProfile(i, ptr, ub) ==
    /\ Running
    /\ builder.st = "owned"
    /\ BuilderFree
    /\ profile[i].st = "none"
    /\ \A j \in ProfIds : j < i => profile[j].st # "none"
    /\ LET w == Create(World, "createOptimizationProfile", builder.addr, ptr, ub)
       IN /\ Commit(w, [Op("Builder::optimization_profile", result(ptr)) EXCEPT !.i = i])
          /\ profile' = IF w.halt = "no" /\ result(ptr) = "ok"
                         THEN [profile EXCEPT ![i] = [st |-> "live", addr |-> ptr]]
                         ELSE profile
    /\ UNCHANGED <<builder, config, network, runtime, engine, arcRefs, ctx, addr,
                   attached>>
    /\ UNCHANGED asyncVars
    /\ UNCHANGED dimVars

\* ffi::sync::Builder::optimization_profile
BuilderOptimizationProfile(i, ptr, ub) ==
    /\ CreateProfile(i, ptr, ub)
    /\ UNCHANGED extVars

\* The index addOptimizationProfile returns: the position of the profile in
\* the config, or -1 when the native layer rejects it.
AttachIndex(accept) == IF accept THEN Len(attached) ELSE -1

\* An attach that reports success whatever index came back.
AttachResultIgnoringIndex(index) == "ok"

\* if index >= 0 { Ok(()) } else { Err(last_error()) }
AttachResult(index) == IF index >= 0 THEN "ok" ELSE "err"

\* BuilderConfig::add_optimization_profile(&mut self, profile): the native
\* attach; `profile` is moved into the call.
AddOptimizationProfile(w, p, ub) ==
    Call(w, "addOptimizationProfile", config.addr, p.addr, 0, ub)

AttachedAfter(w, p, accept) ==
    IF w.halt = "no" /\ accept THEN Append(attached, p.addr) ELSE attached

ConfigAddOptimizationProfile(i, accept, ub) ==
    /\ Running
    /\ config.st = "owned"
    /\ profile[i].st = "live"
    /\ LET w == AddOptimizationProfile(World, profile[i], ub)
           index == AttachIndex(accept)
       IN /\ Commit(w, [Op("BuilderConfig::add_optimization_profile",
                           AttachResult(index)) EXCEPT !.i = i, !.n = index])
          /\ attached' = AttachedAfter(w, profile[i], accept)
          /\ profile' = IF w.halt = "no"
                         THEN [profile EXCEPT ![i].st = "moved"] ELSE profile
    /\ UNCHANGED <<builder, config, network, runtime, engine, arcRefs, ctx, addr>>
    /\ UNCHANGED asyncVars
    /\ UNCHANGED dimVars
    /\ UNCHANGED extVars

\* BuilderConfig::with_optimization_profile(self, profile): add, then
\* Ok(self); on Err `self` is dropped with the error.
ConfigWithOptimizationProfile(i, accept, ub) ==
    /\ Running
    /\ config.st = "owned"
    /\ profile[i].st = "live"
    /\ LET w1 == AddOptimizationProfile(World, profile[i], ub)
           index == AttachIndex(accept)
           w == IF AttachResult(index) = "ok" THEN w1 ELSE DropBuilderConfig(w1, ub)
       IN /\ Commit(w, [Op("BuilderConfig::with_optimization_profile",
                           AttachResult(index)) EXCEPT !.i = i, !.n = index])
          /\ attached' = AttachedAfter(w, profile[i], accept)
          /\ profile' = IF w.halt = "no"
                         THEN [profile EXCEPT ![i].st = "moved"] ELSE profile
          /\ config' = IF w.halt = "no" /\ AttachResult(index) # "ok"
                        THEN [config EXCEPT !.st = "dropped"] ELSE config
    /\ UNCHANGED <<builder, network, runtime, engine, arcRefs, ctx, addr>>
    /\ UNCHANGED asyncVars
    /\ UNCHANGED dimVars
    /\ UNCHANGED extVars

\* The caller drops an OptimizationProfile: the type has no Drop, the native
\* profile stays with its builder.
ProfileDrop(i) ==
    /\ Running
    /\ profile[i].st = "live"
    /\ profile' = [profile EXCEPT ![i].st = "dropped"]
    /\ calls' = <<>>
    /\ last' = [Op("drop OptimizationProfile", "ok") EXCEPT !.i = i]
    /\ UNCHANGED <<cur, nat, builder, config, network, runtime, engine, arcRefs,
                   ctx, addr, halt, attached>>
    /\ UNCHANGED asyncVars
    /\ UNCHANGED dimVars
    /\ UNCHANGED extVars

\* --------------------------------- dimensions and shape values of a profile
\* const MAX_DIMS: the capacity of nvinfer1::Dims::d and of the Vec that
\* get_dimensions fills.
MAX_DIMS == 8
\* OptimizationProfileSelector: Min = 0, Opt = 1, Max = 2.
Selectors == {0, 1, 2}
InputNames == {"x"}
\* Slices of MAX_DIMS elements and of one more.
LongSeqs == {[i \in 1..n |-> 10 * i] : n \in MAX_DIMS..(MAX_DIMS + 1)}
\* The slices passed to the setters: every length 0..MAX_DIMS, elements that
\* tell the positions apart.
DimSeqs == {[i \in 1..n |-> 10 * i] : n \in 0..MAX_DIMS}
\* What an element of `xdims.d` that was never written may hold.
Junk == {0, 99}
\* A pointer to an array of values, or the null pointer.
NULLPTR == [null |-> TRUE, at |-> <<>>]
PtrTo(values) == [null |-> FALSE, at |-> values]

\* nvinfer1::Dims of an input that was never set: nbDims = -1.
NoDims == [nbDims |-> -1, d |-> [i \in 1..MAX_DIMS |-> 0]]
\* Shape values of an input that was never set: getNbShapeValues = -1 and
\* getShapeValues = nullptr for each selector.
NoValues == [nb |-> -1, v |-> [sel \in Selectors |-> NULLPTR]]

\* set_dimensions, the C++ side: xdims.nbDims = nb_dims and the first
\* nb_dims elements of xdims.d copied from dims_ptr; the rest is not written.
XDims(dims, junk) ==
    [nbDims |-> Len(dims),
     d |-> [i \in 1..MAX_DIMS |-> IF i <= Len(dims) THEN dims[i] ELSE junk]]

\* setDimensions(name, select, xdims): the profile keeps xdims when it
\* accepts it.
SetDimensions(store, name, select, dims, junk, accept) ==
    IF accept THEN [store EXCEPT ![name][select] = XDims(dims, junk)] ELSE store

\* A get_dimensions that always returns the whole buffer of MAX_DIMS
\* elements.
GetDimensionsWholeBuffer(store, name, select) ==
    LET dims == store[name][select] IN
    IF dims.nbDims >= 0
    THEN [some |-> TRUE, v |-> [i \in 1..MAX_DIMS |-> dims.d[i]]]
    ELSE [some |-> FALSE, v |-> <<>>]

\* A get_dimensions that reports an input never set as an empty sequence.
GetDimensionsUnsetAsEmpty(store, name, select) ==
    LET dims == store[name][select] IN
    IF dims.nbDims >= 0
    THEN [some |-> TRUE, v |-> [i \in 1..dims.nbDims |-> dims.d[i]]]
    ELSE [some |-> TRUE, v |-> <<>>]

\* get_dimensions: getDimensions(name, select), the first nbDims elements
\* copied into the Vec, set_len(nbDims); None when nbDims < 0.
GetDimensions(store, name, select) ==
    LET dims == store[name][select] IN
    IF dims.nbDims >= 0
    THEN [some |-> TRUE, v |-> [i \in 1..dims.nbDims |-> dims.d[i]]]
    ELSE [some |-> FALSE, v |-> <<>>]

\* Whether setShapeValues can accept `values`: as many of them as an earlier
\* call for the same input gave; otherwise the native validation reports an
\* inconsistency and the setter returns false.
ValuesConsistent(store, name, values) == store[name].nb \in {-1, Len(values)}

\* set_shape_values: setShapeValues(name, select, values_ptr, nb_values).
SetShapeValues(store, name, select, values, accept) ==
    IF accept
    THEN [store EXCEPT ![name] = [nb |-> Len(values),
                                  v |-> [@.v EXCEPT ![select] = PtrTo(values)]]]
    ELSE store

\* get_shape_values: getNbShapeValues(name), Ok(None) when negative; then
\* getShapeValues(name, select) through result!, and nb values read from it.
GetShapeValues(store, name, select) ==
    LET nb == store[name].nb
        shape_values == store[name].v[select]
    IN IF nb < 0 THEN [res |-> "ok", some |-> FALSE, v |-> <<>>]
       ELSE IF shape_values.null THEN [res |-> "err", some |-> FALSE, v |-> <<>>]
       ELSE [res |-> "ok", some |-> TRUE, v |-> [i \in 1..nb |-> shape_values.at[i]]]

\* The call is remembered with the setter that ran right before it, if any.
Remember(h) ==
    IF phist # <<>> /\ phist[Len(phist)].op \in {"set_dimensions", "set_shape_values"}
    THEN <<phist[Len(phist)], h>>
    ELSE <<h>>
Called(op, name, select, arg, res, ret, value) ==
    [op |-> op, name |-> name, select |-> select, arg |-> arg, res |-> res,
     ret |-> ret, value |-> value]

\* The elements of xdims.d (from 0) that the copy loop of set_dimensions
\* writes: one for each element of the slice.
SetDimensionsWrites(dims) == 0..(Len(dims) - 1)
\* The elements of the Vec's buffer that get_dimensions writes for a native
\* result of nbDims dimensions.
GetDimensionsWrites(nbDims) == 0..(nbDims - 1)

\* set_min_dimensions / set_opt_dimensions / set_max_dimensions.  A write
\* past the end of xdims.d is undefined behaviour: the build crashes there
\* (ub) or carries on; the native validation rejects such a Dims.
ProfileSetDimensions(i, name, select, dims, junk, accept, ub) ==
    /\ Running
    /\ profile[i].st = "live"
    /\ setsLeft > 0
    /\ accept => Len(dims) <= MAX_DIMS
    /\ ub => Len(dims) > MAX_DIMS
    /\ dimStore' = SetDimensions(dimStore, name, select, dims, junk, accept)
    /\ phist' = Remember(Called("set_dimensions", name, select, dims, "ok", accept, <<>>))
    /\ setsLeft' = setsLeft - 1
    /\ halt' = IF ub THEN "crash" ELSE halt
    /\ UNCHANGED <<cur, nat, builder, config, network, runtime, engine, arcRefs,
                   ctx, addr, calls, last, valStore>>
    /\ UNCHANGED <<asyncVars, profVars, extVars>>

\* get_min_dimensions / get_opt_dimensions / get_max_dimensions
ProfileGetDimensions(i, name, select) ==
    /\ Running
    /\ profile[i].st = "live"
    /\ LET r == GetDimensions(dimStore, name, select)
       IN phist' = Remember(Called("get_dimensions", name, select, <<>>, "ok", r.some, r.v))
    /\ UNCHANGED <<cur, nat, builder, config, network, runtime, engine, arcRefs,
                   ctx, addr, calls, last, halt, dimStore, valStore, setsLeft>>
    /\ UNCHANGED <<asyncVars, profVars, extVars>>

\* set_min_shape_values / set_opt_shape_values / set_max_shape_values
ProfileSetShapeValues(i, name, select, values, accept) ==
    /\ Running
    /\ profile[i].st = "live"
    /\ setsLeft > 0
    /\ accept => ValuesConsistent(valStore, name, values)
    /\ valStore' = SetShapeValues(valStore, name, select, values, accept)
    /\ phist' = Remember(Called("set_shape_values", name, select, values, "ok", accept, <<>>))
    /\ setsLeft' = setsLeft - 1
    /\ UNCHANGED <<cur, nat, builder, config, network, runtime, engine, arcRefs,
                   ctx, addr, calls, last, halt, dimStore>>
    /\ UNCHANGED <<asyncVars, profVars, extVars>>

\* get_min_shape_values / get_opt_shape_values / get_max_shape_values
ProfileGetShapeValues(i, name, select) ==
    /\ Running
    /\ profile[i].st = "live"
    /\ LET r == GetShapeValues(valStore, name, select)
       IN phist' = Remember(Called("get_shape_values", name, select, <<>>,
                                   r.res, r.res = "ok" /\ r.some, r.v))
    /\ UNCHANGED <<cur, nat, builder, config, network, runtime, engine, arcRefs,
                   ctx, addr, calls, last, halt, dimStore, valStore, setsLeft>>
    /\ UNCHANGED <<asyncVars, profVars, extVars>>

\* ------------------------------------------------------ runtime and engine
\* Runtime::new: the pointer is wrapped as it comes.
RuntimeNew(ptr, getOk) ==
    /\ Running
    /\ runtime.st = "none"
    /\ LET w0 == [World EXCEPT !.halt = IF getOk THEN "no" ELSE "panic"]
           w  == Wrap(Create(w0, "createInferRuntime", LIB, ptr, FALSE), ptr)
       IN /\ Commit(w, Op("Runtime::new", "ok"))
          /\ runtime' = IF w.halt = "no"
                         THEN [st |-> "owned", addr |-> ptr, device |-> cur]
                         ELSE runtime
    /\ UNCHANGED <<builder, config, network, engine, arcRefs, ctx, addr>>
    /\ UNCHANGED asyncVars
    /\ UNCHANGED dimVars
    /\ UNCHANGED extVars
    /\ UNCHANGED profVars

\* Runtime::set_engine_host_code_allowed
RuntimeSetEngineHostCodeAllowed(allowed, ub) ==
    /\ Running
    /\ runtime.st = "owned"
    /\ LET w == Call(World, "setEngineHostCodeAllowed", runtime.addr, "",
                     IF allowed THEN 1 ELSE 0, ub)
       IN Commit(w, Op("Runtime::set_engine_host_code_allowed", "ok"))
    /\ UNCHANGED <<builder, config, network, runtime, engine, arcRefs, ctx, addr>>
    /\ UNCHANGED asyncVars
    /\ UNCHANGED dimVars
    /\ UNCHANGED extVars
    /\ UNCHANGED profVars

\* A deserialize that calls the native deserializer on whatever device is
\* current.
DeserializeEngineRawNoSet(w, ptr, fails, ub) ==
    LET w2 == Create(w, "deserializeCudaEngine", runtime.addr, ptr, ub) IN
    IF ptr = NULL THEN DropRuntime(w2, fails, ub) ELSE Wrap(w2, ptr)

\* Runtime::deserialize_engine_raw(self, ..): Device::set(self.device)?, the
\* native deserialize, result!.  On both error returns `self` is dropped.
DeserializeEngineRaw(w, ptr, fails, ub) ==
    LET w1 == DeviceSet(w, runtime.device, fails) IN
    IF SetFailed(w1, fails) THEN DropRuntime(w1, fails, ub)
    ELSE LET w2 == Create(w1, "deserializeCudaEngine", runtime.addr, ptr, ub) IN
         IF ptr = NULL THEN DropRuntime(w2, fails, ub) ELSE Wrap(w2, ptr)

RuntimeDeserializeEngine(ptr, fails, ub) ==
    /\ Running
    /\ runtime.st = "owned"
    /\ engine.st = "none"
    /\ LET w  == DeserializeEngineRaw(World, ptr, fails, ub)
           sf == 1 \in fails
           ok == ~sf /\ ptr # NULL
       IN /\ Commit(w, [Op("Runtime::deserialize_engine",
                           IF ok THEN "ok" ELSE "err")
                        EXCEPT !.ptrs = <<ptr>>, !.setFailed = sf,
                               !.dropSetFailed = ~ok /\ w.halt = "panic"])
          /\ runtime' = IF w.halt # "no" THEN runtime
                         ELSE [runtime EXCEPT !.st = IF ok THEN "inEngine" ELSE "dropped"]
          /\ engine' = IF w.halt = "no" /\ ok
                        THEN [st |-> "owned", internal |-> ptr] ELSE engine
    /\ UNCHANGED <<builder, config, network, arcRefs, ctx, addr>>
    /\ UNCHANGED asyncVars
    /\ UNCHANGED dimVars
    /\ UNCHANGED extVars
    /\ UNCHANGED profVars

\* Whether the caller can reach the Engine: it owns it, or holds an Arc to it.
EngineAccessible ==
    engine.st = "owned" \/ (engine.st = "shared" /\ arcRefs > 0)

\* Contexts made by ExecutionContext::new borrow the engine ('engine).
Borrowed == {i \in CtxIds : ctx[i].st = "live" /\ ~ctx[i].parent}
\* Contexts holding Some(Arc<Engine>) in _parent.
Sharing == {i \in CtxIds : ctx[i].st = "live" /\ ctx[i].parent}
\* Arc::strong_count of the shared engine.
StrongCount == arcRefs + Cardinality(Sharing)

\* Dropping one Arc<Engine>: the engine is dropped when no reference is left.
ReleaseArc(w, left, fails, ub) ==
    IF left = 0 THEN DropEngine(w, fails, ub) ELSE w

\* Engine::serialize
EngineSerialize(buf, ub) ==
    /\ Running
    /\ EngineAccessible
    /\ LET w == Call(World, "serialize", engine.internal, "", 0, ub)
       IN Commit(w, Op("Engine::serialize", result(buf)))
    /\ UNCHANGED <<builder, config, network, runtime, engine, arcRefs, ctx, addr>>
    /\ UNCHANGED asyncVars
    /\ UNCHANGED dimVars
    /\ UNCHANGED extVars
    /\ UNCHANGED profVars

\* Engine::num_io_tensors, and the other queries on the engine.
EngineNumIoTensors(ub) ==
    /\ Running
    /\ EngineAccessible
    /\ LET w == Call(World, "getNbIOTensors", engine.internal, "", 0, ub)
       IN Commit(w, Op("Engine::num_io_tensors", "ok"))
    /\ UNCHANGED <<builder, config, network, runtime, engine, arcRefs, ctx, addr>>
    /\ UNCHANGED asyncVars
    /\ UNCHANGED dimVars
    /\ UNCHANGED extVars
    /\ UNCHANGED profVars

\* The NV_TENSORRT_MAJOR values that the #if branches of the crate tell apart.
Majors == {7, 8, 10}

\* The C++ side of io_tensor_type in a build for major version v.  From
\* TensorRT 8 on: getIOTensorName(index), kFLOAT (0) when it returns nullptr
\* (no tensor of that index), else getTensorDataType(name); before:
\* getBindingDataType(index).  `asked` tells whether the native layer was
\* asked for a data type, `code` is what it answered.
NativeDataType(v, index, code) ==
    IF v >= 8 /\ index >= Cardinality(Tensors)
    THEN [asked |-> FALSE, code |-> 0]
    ELSE [asked |-> TRUE, code |-> code]

\* match data_type { 0 => DataType::Float, .., 10 => DataType::Fp4,
\*                   _ => panic!(..) }
IoTensorType(data_type) ==
    CASE data_type = 0 -> "Float"
      [] data_type = 1 -> "Half"
      [] data_type = 2 -> "Int8"
      [] data_type = 3 -> "Int32"
      [] data_type = 4 -> "Bool"
      [] data_type = 5 -> "Uint8"
      [] data_type = 6 -> "Fp8"
      [] data_type = 7 -> "Bf16"
      [] data_type = 8 -> "Int64"
      [] data_type = 9 -> "Int4"
      [] data_type = 10 -> "Fp4"
      [] OTHER -> "panic"

\* Engine::io_tensor_type(io_tensor_index)
EngineIoTensorType(v, index, code, ub) ==
    /\ Running
    /\ EngineAccessible
    /\ major \in {0, v}
    /\ major' = v
    /\ LET r  == NativeDataType(v, index, code)
           w0 == Call(World, IF v >= 8 THEN "getIOTensorName" ELSE "getBindingDataType",
                      engine.internal, "", index, ub)
           w1 == IF v >= 8 /\ r.asked
                 THEN Call(w0, "getTensorDataType", engine.internal, "", index, ub)
                 ELSE w0
           t  == IoTensorType(r.code)
           w  == IF w1.halt = "no" /\ t = "panic" THEN [w1 EXCEPT !.halt = "panic"] ELSE w1
       IN /\ Commit(w, [Op("Engine::io_tensor_type", "ok") EXCEPT !.n = index])
          /\ dtype' = [index |-> index,
                       reported |-> IF r.asked THEN {code} ELSE {},
                       ret |-> IF w.halt = "no" THEN t ELSE "none"]
    /\ UNCHANGED <<builder, config, network, runtime, engine, arcRefs, ctx, addr>>
    /\ UNCHANGED <<asyncVars, dimVars, profVars, fprof, flags, workspace>>

\* The caller drops the Engine it owns; the borrow checker allows it only
\* when no context borrows the engine.
EngineDrop(fails, ub) ==
    /\ Running
    /\ engine.st = "owned"
    /\ Borrowed = {}
    /\ LET w == DropEngine(World, fails, ub)
       IN /\ Commit(w, [Op("drop Engine", "ok") EXCEPT !.inDrop = TRUE])
          /\ engine' = IF w.halt = "no" THEN [engine EXCEPT !.st = "dropped"] ELSE engine
          /\ runtime' = IF w.halt = "no" THEN [runtime EXCEPT !.st = "dropped"] ELSE runtime
    /\ UNCHANGED <<builder, config, network, arcRefs, ctx, addr>>
    /\ UNCHANGED asyncVars
    /\ UNCHANGED dimVars
    /\ UNCHANGED extVars
    /\ UNCHANGED profVars

\* The caller drops a Runtime it still owns.
RuntimeDrop(fails, ub) ==
    /\ Running
    /\ runtime.st = "owned"
    /\ LET w == DropRuntime(World, fails, ub)
       IN /\ Commit(w, [Op("drop Runtime", "ok") EXCEPT !.inDrop = TRUE])
          /\ runtime' = IF w.halt = "no" THEN [runtime EXCEPT !.st = "dropped"] ELSE runtime
    /\ UNCHANGED <<builder, config, network, engine, arcRefs, ctx, addr>>
    /\ UNCHANGED asyncVars
    /\ UNCHANGED dimVars
    /\ UNCHANGED extVars
    /\ UNCHANGED profVars

\* The caller moves its Engine into an Arc (for from_shared_engine).
EngineShare ==
    /\ Running
    /\ engine.st = "owned"
    /\ Borrowed = {}
    /\ engine' = [engine EXCEPT !.st = "shared"]
    /\ arcRefs' = 1
    /\ calls' = <<>>
    /\ last' = Op("Arc::new", "ok")
    /\ UNCHANGED <<cur, nat, builder, config, network, runtime, ctx, addr, halt>>
    /\ UNCHANGED asyncVars
    /\ UNCHANGED dimVars
    /\ UNCHANGED extVars
    /\ UNCHANGED profVars

\* The caller clones its Arc<Engine>.
ArcClone ==
    /\ Running
    /\ engine.st = "shared"
    /\ arcRefs > 0
    /\ arcRefs < MaxArcRefs
    /\ arcRefs' = arcRefs + 1
    /\ calls' = <<>>
    /\ last' = Op("Arc::clone", "ok")
    /\ UNCHANGED <<cur, nat, builder, config, network, runtime, engine, ctx, addr, halt>>
    /\ UNCHANGED asyncVars
    /\ UNCHANGED dimVars
    /\ UNCHANGED extVars
    /\ UNCHANGED profVars

\* A handle the caller may give up: a borrowing context pins one of them.
ArcHandleFree == arcRefs > (IF Borrowed = {} THEN 0 ELSE 1)

\* The state of engine and runtime after a release that left `left` references.
EngineAfterRelease(w, left) ==
    IF w.halt = "no" /\ left = 0 THEN [engine EXCEPT !.st = "dropped"] ELSE engine
RuntimeAfterRelease(w, left) ==
    IF w.halt = "no" /\ left = 0 THEN [runtime EXCEPT !.st = "dropped"] ELSE runtime

\* The caller drops one of its Arc<Engine> handles.
ArcDrop(fails, ub) ==
    /\ Running
    /\ engine.st = "shared"
    /\ ArcHandleFree
    /\ LET left == StrongCount - 1
           w == ReleaseArc(World, left, fails, ub)
       IN /\ Commit(w, [Op("drop Arc<Engine>", "ok") EXCEPT !.inDrop = TRUE])
          /\ arcRefs' = IF w.halt = "no" THEN arcRefs - 1 ELSE arcRefs
          /\ engine' = EngineAfterRelease(w, left)
          /\ runtime' = RuntimeAfterRelease(w, left)
    /\ UNCHANGED <<builder, config, network, ctx, addr>>
    /\ UNCHANGED asyncVars
    /\ UNCHANGED dimVars
    /\ UNCHANGED extVars
    /\ UNCHANGED profVars

\* ------------------------------------------------------ execution contexts
\* ExecutionContext::new_internal(&engine): set_or_panic(engine.device()),
\* then createExecutionContext on the engine; returns the raw pointer.
NewInternal(w, ptr, fails, ub) ==
    Create(DeviceSetOrPanic(w, EngineDevice, fails),
           "createExecutionContext", engine.internal, ptr, ub)

\* A context that records the default device instead of the engine's.
LiveCtxDefaultDevice(ptr, parent) ==
    [st |-> "live", internal |-> ptr, device |-> 0, parent |-> parent]

LiveCtx(ptr, parent) ==
    [st |-> "live", internal |-> ptr, device |-> EngineDevice, parent |-> parent]

CtxPtrs(i) == {NULL, CtxObj(i)}

\* ExecutionContext::new(&engine): borrows the engine, _parent: None.
CtxNew(i, ptr, fails, ub) ==
    /\ Running
    /\ EngineAccessible
    /\ ctx[i].st = "none"
    /\ LET w == Wrap(NewInternal(World, ptr, fails, ub), ptr)
       IN /\ Commit(w, [Op("ExecutionContext::new", result(ptr))
                          EXCEPT !.i = i, !.setFailed = 1 \in fails])
          /\ ctx' = IF w.halt = "no" /\ result(ptr) = "ok"
                     THEN [ctx EXCEPT ![i] = LiveCtx(ptr, FALSE)] ELSE ctx
    /\ UNCHANGED <<builder, config, network, runtime, engine, arcRefs, addr>>
    /\ UNCHANGED asyncVars
    /\ UNCHANGED dimVars
    /\ UNCHANGED extVars
    /\ UNCHANGED profVars

\* ExecutionContext::from_engine(engine): on success the engine moves into a
\* new Arc held by the context; on a null context `engine` is dropped.
FromEngine(w, ptr, fails, ub) ==
    LET w1 == NewInternal(w, ptr, fails, ub) IN
    IF result(ptr) = "ok" THEN Wrap(w1, ptr) ELSE DropEngine(w1, fails, ub)

CtxFromEngine(i, ptr, fails, ub) ==
    /\ Running
    /\ engine.st = "owned"
    /\ Borrowed = {}
    /\ ctx[i].st = "none"
    /\ LET w == FromEngine(World, ptr, fails, ub)
           ok == result(ptr) = "ok"
       IN /\ Commit(w, [Op("ExecutionContext::from_engine", result(ptr))
                          EXCEPT !.i = i, !.setFailed = 1 \in fails,
                                 !.dropSetFailed = ~ok /\ (1 \notin fails) /\ w.halt = "panic"])
          /\ ctx' = IF w.halt = "no" /\ ok
                     THEN [ctx EXCEPT ![i] = LiveCtx(ptr, TRUE)] ELSE ctx
          /\ engine' = IF w.halt # "no" THEN engine
                        ELSE [engine EXCEPT !.st = IF ok THEN "shared" ELSE "dropped"]
          /\ runtime' = IF w.halt = "no" /\ ~ok
                         THEN [runtime EXCEPT !.st = "dropped"] ELSE runtime
          /\ arcRefs' = 0
    /\ UNCHANGED <<builder, config, network, addr>>
    /\ UNCHANGED asyncVars
    /\ UNCHANGED dimVars
    /\ UNCHANGED extVars
    /\ UNCHANGED profVars

\* ExecutionContext::from_shared_engine(arc): the caller's Arc moves into the
\* context; on a null context the Arc is dropped at the end of the call.
FromSharedEngine(w, ptr, fails, ub) ==
    LET w1 == NewInternal(w, ptr, fails, ub) IN
    IF result(ptr) = "ok" THEN Wrap(w1, ptr)
    ELSE ReleaseArc(w1, StrongCount - 1, fails, ub)

CtxFromSharedEngine(i, ptr, fails, ub) ==
    /\ Running
    /\ engine.st = "shared"
    /\ ArcHandleFree
    /\ ctx[i].st = "none"
    /\ LET w == FromSharedEngine(World, ptr, fails, ub)
           ok == result(ptr) = "ok"
           left == IF ok THEN StrongCount ELSE StrongCount - 1
       IN /\ Commit(w, [Op("ExecutionContext::from_shared_engine", result(ptr))
                          EXCEPT !.i = i, !.setFailed = 1 \in fails,
                                 !.dropSetFailed = ~ok /\ (1 \notin fails) /\ w.halt = "panic"])
          /\ ctx' = IF w.halt = "no" /\ ok
                     THEN [ctx EXCEPT ![i] = LiveCtx(ptr, TRUE)] ELSE ctx
          /\ arcRefs' = IF w.halt = "no" THEN arcRefs - 1 ELSE arcRefs
          /\ engine' = EngineAfterRelease(w, left)
          /\ runtime' = RuntimeAfterRelease(w, left)
    /\ UNCHANGED <<builder, config, network, addr>>
    /\ UNCHANGED asyncVars
    /\ UNCHANGED dimVars
    /\ UNCHANGED extVars
    /\ UNCHANGED profVars

\* The raw pointers the loop of from_engine_many collects: num <= MaxCtx.
PtrSeqs == UNION {{p \in [1..n -> {NULL} \cup {CtxObj(i) : i \in 1..n}] :
                      \A k \in 1..n : p[k] \in CtxPtrs(k)} : n \in 0..MaxCtx}

RECURSIVE NewInternalMany(_, _, _, _, _)
NewInternalMany(w, ptrs, k, fails, ub) ==
    IF k = 0 THEN w
    ELSE NewInternal(NewInternalMany(w, ptrs, k - 1, fails, ub), ptrs[k], fails, ub)

\* Position of the first null pointer, 0 when there is none.
FirstNull(ptrs) ==
    IF \E k \in 1..Len(ptrs) : ptrs[k] = NULL
    THEN CHOOSE k \in 1..Len(ptrs) :
             ptrs[k] = NULL /\ \A j \in 1..(k - 1) : ptrs[j] # NULL
    ELSE 0

\* collect::<Result<Vec<_>>>() stops at the first Err: the contexts it built.
Collected(ptrs) ==
    IF FirstNull(ptrs) = 0 THEN Len(ptrs) ELSE FirstNull(ptrs) - 1

RECURSIVE WrapMany(_, _, _)
WrapMany(w, ptrs, k) ==
    IF k = 0 THEN w ELSE Wrap(WrapMany(w, ptrs, k - 1), ptrs[k])

\* The partial Vec<ExecutionContext> is dropped, element by element.
RECURSIVE DropMany(_, _, _, _, _)
DropMany(w, ptrs, k, fails, ub) ==
    IF k = 0 THEN w
    ELSE DropExecutionContext(DropMany(w, ptrs, k - 1, fails, ub),
                              LiveCtx(ptrs[k], TRUE), fails, ub)

\* from_engine_many whose contexts hold no clone of the Arc: the engine goes
\* when the local `parent` is dropped at the end of the call.
FromEngineManyNoClone(w, ptrs, fails, ub) ==
    LET n  == Len(ptrs)
        w1 == NewInternalMany(w, ptrs, n, fails, ub)
        w2 == WrapMany(w1, ptrs, Collected(ptrs))
    IN IF FirstNull(ptrs) = 0
       THEN ReleaseArc(w2, 0, fails, ub)
       ELSE ReleaseArc(DropMany(w2, ptrs, Collected(ptrs), fails, ub), 0, fails, ub)

\* ExecutionContext::from_engine_many(engine, num): num raw contexts, one
\* Arc for the engine, then one wrapper per pointer until the first null.
\* At the end the local `parent` is dropped.
FromEngineMany(w, ptrs, fails, ub) ==
    LET n  == Len(ptrs)
        w1 == NewInternalMany(w, ptrs, n, fails, ub)
        w2 == WrapMany(w1, ptrs, Collected(ptrs))
    IN IF FirstNull(ptrs) = 0
       THEN ReleaseArc(w2, n, fails, ub)
       ELSE ReleaseArc(DropMany(w2, ptrs, Collected(ptrs), fails, ub), 0, fails, ub)

CtxFromEngineMany(ptrs, fails, ub) ==
    /\ Running
    /\ engine.st = "owned"
    /\ Borrowed = {}
    /\ \A i \in CtxIds : ctx[i].st = "none"
    /\ LET w  == FromEngineMany(World, ptrs, fails, ub)
           n  == Len(ptrs)
           ok == FirstNull(ptrs) = 0
           kept == ok /\ n > 0
       IN /\ Commit(w, [Op("ExecutionContext::from_engine_many",
                           IF ok THEN "ok" ELSE "err")
                          EXCEPT !.n = n, !.ptrs = ptrs,
                                 !.setFailed = \E k \in 1..n : k \in fails,
                                 !.dropSetFailed = w.halt = "panic"
                                         /\ ~\E k \in 1..n : k \in fails])
          /\ ctx' = IF w.halt # "no" THEN ctx
                     ELSE [i \in CtxIds |->
                             IF i > Collected(ptrs) THEN ctx[i]
                             ELSE [LiveCtx(ptrs[i], TRUE) EXCEPT
                                      !.st = IF ok THEN "live" ELSE "dropped"]]
          /\ engine' = IF w.halt # "no" THEN engine
                        ELSE [engine EXCEPT !.st = IF kept THEN "shared" ELSE "dropped"]
          /\ runtime' = IF w.halt = "no" /\ ~kept
                         THEN [runtime EXCEPT !.st = "dropped"] ELSE runtime
          /\ arcRefs' = 0
    /\ UNCHANGED <<builder, config, network, addr>>
    /\ UNCHANGED asyncVars
    /\ UNCHANGED dimVars
    /\ UNCHANGED extVars
    /\ UNCHANGED profVars

\* The address handed to setTensorAddress for the caller's buffer pointer.
BoundPtr(buffer_ptr) == 0

\* ExecutionContext::set_tensor_address(name, buffer_ptr): getTensorAddress,
\* then setTensorAddress; the native result decides Ok / Err.
SetTensorAddress(w, c, name, buffer_ptr, ub) ==
    Call(Call(w, "getTensorAddress", c.internal, name, 0, ub),
         "setTensorAddress", c.internal, name, BoundPtr(buffer_ptr), ub)

\* ExecutionContext::bind_tensor(name, buffer)
CtxBindTensor(i, name, buf, ok, ub) ==
    /\ Running
    /\ ctx[i].st = "live"
    /\ LET w == SetTensorAddress(World, ctx[i], name, buf, ub)
       IN /\ Commit(w, [Op("ExecutionContext::bind_tensor", IF ok THEN "ok" ELSE "err")
                          EXCEPT !.i = i, !.names = <<name>>, !.bufs = <<buf>>])
          /\ addr' = IF w.halt = "no" /\ ok
                      THEN [addr EXCEPT ![i][name] = BoundPtr(buf)] ELSE addr
    /\ UNCHANGED <<builder, config, network, runtime, engine, arcRefs, ctx>>
    /\ UNCHANGED asyncVars
    /\ UNCHANGED dimVars
    /\ UNCHANGED extVars
    /\ UNCHANGED profVars

\* The io_tensors maps: distinct names, each with a buffer of its own
\* (&mut DeviceBuffer), visited in the HashMap's arbitrary order.
IoMaps == {m \in UNION {[1..n -> Tensors \X Buffers] : n \in 0..Cardinality(Tensors)} :
              \A j, k \in 1..Len(m) :
                  j # k => m[j][1] # m[k][1] /\ m[j][2] # m[k][2]}
MapNames(m) == [k \in 1..Len(m) |-> m[k][1]]
MapBufs(m) == [k \in 1..Len(m) |-> m[k][2]]

RECURSIVE BindAll(_, _, _, _, _)
BindAll(w, c, m, k, ub) ==
    IF k = 0 THEN w
    ELSE SetTensorAddress(BindAll(w, c, m, k - 1, ub), c, m[k][1], m[k][2], ub)

\* An enqueue whose loop goes on binding after a bind failed.
BindsRunAll(m, failAt) == Len(m)

\* How many binds the loop of enqueue runs: all of them, or up to the first
\* that fails (failAt, 0 for none), where `?` returns.
BindsRun(m, failAt) == IF failAt = 0 THEN Len(m) ELSE failAt

\* An enqueue that ignores the result of its binds.
SubmitsAlways(m, failAt) == TRUE

\* Whether enqueue goes on to enqueueV3 after its bind loop.
Submits(m, failAt) == failAt = 0

\* ExecutionContext::enqueue(io_tensors, stream)
Enqueue(w, c, m, failAt, ub) ==
    LET w1 == BindAll(w, c, m, BindsRun(m, failAt), ub) IN
    IF Submits(m, failAt) THEN Call(w1, "enqueueV3", c.internal, "", 0, ub) ELSE w1

\* What enqueue returns.
EnqueueResult(m, failAt, submitOk) ==
    IF failAt # 0 THEN "err" ELSE IF submitOk THEN "ok" ELSE "err"

\* The tensor addresses after the first k binds of m succeeded.
RECURSIVE AddrAfter(_, _, _)
AddrAfter(a, m, k) ==
    IF k = 0 THEN a
    ELSE [AddrAfter(a, m, k - 1) EXCEPT ![m[k][1]] = BoundPtr(m[k][2])]

CtxEnqueue(i, m, failAt, submitOk, ub) ==
    /\ Running
    /\ ctx[i].st = "live"
    /\ failAt \in 0..Len(m)
    /\ failAt # 0 => ~submitOk
    /\ LET w == Enqueue(World, ctx[i], m, failAt, ub)
           okBinds == IF failAt = 0 THEN Len(m) ELSE failAt - 1
       IN /\ Commit(w, [Op("ExecutionContext::enqueue", EnqueueResult(m, failAt, submitOk))
                          EXCEPT !.i = i, !.names = MapNames(m), !.bufs = MapBufs(m),
                                 !.n = failAt, !.submitOk = submitOk])
          /\ addr' = IF w.halt = "no"
                      THEN [addr EXCEPT ![i] = AddrAfter(@, m, okBinds)] ELSE addr
    /\ UNCHANGED <<builder, config, network, runtime, engine, arcRefs, ctx>>
    /\ UNCHANGED asyncVars
    /\ UNCHANGED dimVars
    /\ UNCHANGED extVars
    /\ UNCHANGED profVars

\* ExecutionContext::enqueue_prebound(stream)
CtxEnqueuePrebound(i, submitOk, ub) ==
    /\ Running
    /\ ctx[i].st = "live"
    /\ LET w == Call(World, "enqueueV3", ctx[i].internal, "", 0, ub)
       IN Commit(w, [Op("ExecutionContext::enqueue_prebound",
                        IF submitOk THEN "ok" ELSE "err")
                      EXCEPT !.i = i, !.submitOk = submitOk])
    /\ UNCHANGED <<builder, config, network, runtime, engine, arcRefs, ctx, addr>>
    /\ UNCHANGED asyncVars
    /\ UNCHANGED dimVars
    /\ UNCHANGED extVars
    /\ UNCHANGED profVars

\* A context whose field _parent is released before its native context is
\* destroyed.
DropContextParentFirst(w, c, left, fails, ub) ==
    LET w1 == IF c.parent THEN ReleaseArc(w, left, fails, ub) ELSE w IN
    DropExecutionContext(w1, c, fails, ub)

\* A context that owns its Engine by value instead of through an Arc: every
\* context dropped takes the engine with it.
DropContextOwningEngine(w, c, left, fails, ub) ==
    LET w1 == DropExecutionContext(w, c, fails, ub) IN
    IF c.parent THEN DropEngine(w1, fails, ub) ELSE w1

\* Dropping an ExecutionContext: its Drop, then its field _parent.
DropContext(w, c, left, fails, ub) ==
    LET w1 == DropExecutionContext(w, c, fails, ub) IN
    IF c.parent THEN ReleaseArc(w1, left, fails, ub) ELSE w1

CtxDrop(i, fails, ub) ==
    /\ Running
    /\ ctx[i].st = "live"
    /\ LET left == IF ctx[i].parent THEN StrongCount - 1 ELSE StrongCount
           gone == IF ctx[i].parent THEN left ELSE 1
           w == DropContext(World, ctx[i], left, fails, ub)
       IN /\ Commit(w, [Op("drop ExecutionContext", "ok")
                          EXCEPT !.i = i, !.inDrop = TRUE])
          /\ ctx' = IF w.halt = "no" THEN [ctx EXCEPT ![i].st = "dropped"] ELSE ctx
          /\ engine' = EngineAfterRelease(w, gone)
          /\ runtime' = RuntimeAfterRelease(w, gone)
    /\ UNCHANGED <<builder, config, network, arcRefs, addr>>
    /\ UNCHANGED asyncVars
    /\ UNCHANGED dimVars
    /\ UNCHANGED extVars
    /\ UNCHANGED profVars

\* ------------------------------------------------------------------ Spec
\* Callers of the asynchronous facade, each on a thread of its own.
Callers == {1, 2}
WORKER == "worker"
CallerThread(c) == <<"caller1", "caller2">>[c]
NoFacade == [builder |-> FALSE, runtime |-> FALSE]
NoValue == [res |-> "none", null |-> FALSE]
NoFacadeProfile == [st |-> "none", of |-> 0, inner |-> FALSE, inner_mut |-> FALSE]
NoDone == [op |-> "none", thread |-> "none", ptrOk |-> FALSE, setOk |-> FALSE,
           value |-> NoValue]

Init ==
    /\ cur \in Devices
    /\ nat = [o \in Objs |-> NoObj]
    /\ builder = [st |-> "none", addr |-> NULL, device |-> 0]
    /\ config = [st |-> "none", addr |-> NULL]
    /\ network = [st |-> "none", addr |-> NULL]
    /\ runtime = [st |-> "none", addr |-> NULL, device |-> 0]
    /\ engine = [st |-> "none", internal |-> NULL]
    /\ arcRefs = 0
    /\ ctx = [i \in CtxIds |-> NoCtx]
    /\ addr = [i \in CtxIds |-> [t \in Tensors |-> 0]]
    /\ calls = <<>>
    /\ last = NoLast
    /\ halt = "no"
    /\ profile = [i \in ProfIds |-> NoProfile]
    /\ attached = <<>>
    /\ dimStore = [n \in InputNames |-> [sel \in Selectors |-> NoDims]]
    /\ valStore = [n \in InputNames |-> NoValues]
    /\ phist = <<>>
    /\ setsLeft = MaxSets
    /\ major = 0
    /\ dtype = [index |-> 0, reported |-> {}, ret |-> "none"]
    /\ fprof = NoFacadeProfile
    /\ flags = {}
    /\ workspace = 0
    /\ queue = <<>>
    /\ work = <<>>
    /\ pc = [c \in Callers |-> "idle"]
    /\ opsLeft = [c \in Callers |-> MaxOps]
    /\ facade = [c \in Callers |-> NoFacade]
    /\ running = {}
    /\ done = [c \in Callers |-> NoDone]

\* The build chain (Builder, BuilderConfig, NetworkDefinition) and the run
\* chain (Runtime, Engine, ExecutionContext) share no object: only a plan's
\* bytes pass from one to the other, and the thread's current device, which
\* SetCurrentDevice drives through every value.  A run follows one chain.
BuildPhase == runtime.st = "none"
RunPhase == builder.st = "none" /\ config.st = "none" /\ network.st = "none"

\* Whether a call through `ptr` can be undefined behaviour at all.
Ub(ptr) == IF ptr = NULL THEN BOOLEAN ELSE {FALSE}

\* The lifecycle of both chains, on one calling thread.
Next ==
    \/ \E d \in Devices : SetCurrentDevice(d)
    \/ \E p \in {NULL, "builder"}, g \in BOOLEAN : BuildPhase /\ BuilderNew(p, g)
    \/ \E p \in {NULL, "config"}, ub \in Ub(builder.addr) : BuilderConfigOp(p, ub)
    \/ \E p \in {NULL, "network"}, ub \in Ub(builder.addr) : BuilderNetworkDefinition(p, ub)
    \/ \E p \in {NULL, "plan"}, ub \in Ub(config.addr) : BuilderBuildSerializedNetwork(p, ub)
    \/ \E ub \in Ub(config.addr) : BuilderConfigDrop(ub)
    \/ \E f \in PanicSets(1), ub \in Ub(builder.addr) : BuilderDrop(f, ub)
    \/ \E p \in {NULL, "runtime"}, g \in BOOLEAN : RunPhase /\ RuntimeNew(p, g)
    \/ \E a \in BOOLEAN, ub \in Ub(runtime.addr) : RuntimeSetEngineHostCodeAllowed(a, ub)
    \/ \E p \in {NULL, "engine"}, f \in FailSets(2), ub \in Ub(runtime.addr) :
           RuntimeDeserializeEngine(p, f, ub)
    \/ \E f \in PanicSets(1), ub \in Ub(runtime.addr) : RuntimeDrop(f, ub)
    \/ \E b \in {NULL, "buf"}, ub \in Ub(engine.internal) : EngineSerialize(b, ub)
    \/ \E ub \in Ub(engine.internal) : EngineNumIoTensors(ub)
    \/ \E f \in PanicSets(2), ub \in Ub(runtime.addr) : EngineDrop(f, ub)
    \/ EngineShare
    \/ ArcClone
    \/ \E f \in PanicSets(2), ub \in Ub(runtime.addr) : ArcDrop(f, ub)
    \/ \E i \in CtxIds, f \in PanicSets(1), ub \in Ub(engine.internal) :
           \E p \in CtxPtrs(i) : CtxNew(i, p, f, ub)
    \/ \E i \in CtxIds, f \in PanicSets(3), ub \in Ub(runtime.addr) :
           \E p \in CtxPtrs(i) : CtxFromEngine(i, p, f, ub)
    \/ \E i \in CtxIds, f \in PanicSets(3), ub \in Ub(runtime.addr) :
           \E p \in CtxPtrs(i) : CtxFromSharedEngine(i, p, f, ub)
    \/ \E p \in PtrSeqs, f \in PanicSets(2 * MaxCtx + 1), ub \in Ub(runtime.addr) :
           CtxFromEngineMany(p, f, ub)
    \/ \E i \in CtxIds, ok \in BOOLEAN :
           \E ub \in Ub(ctx[i].internal) : CtxEnqueuePrebound(i, ok, ub)
    \/ \E i \in CtxIds, f \in PanicSets(3), ub \in Ub(runtime.addr) : CtxDrop(i, f, ub)

Spec == Init /\ [][Next]_vars

\* The build chain with its optimization profiles, every Device::set
\* succeeding.
NextProfile ==
    \/ \E d \in Devices : SetCurrentDevice(d) /\ builder.st = "none"
    \/ BuilderNew("builder", TRUE)
    \/ BuilderConfigOp("config", FALSE)
    \/ BuilderNetworkDefinition("network", FALSE)
    \/ \E i \in ProfIds : \E p \in {NULL, ProfObj(i)} : BuilderOptimizationProfile(i, p, FALSE)
    \/ \E i \in ProfIds, a \in BOOLEAN : ConfigAddOptimizationProfile(i, a, FALSE)
    \/ \E i \in ProfIds, a \in BOOLEAN : ConfigWithOptimizationProfile(i, a, FALSE)
    \/ \E i \in ProfIds : ProfileDrop(i)
    \/ \E p \in {NULL, "plan"} : BuilderBuildSerializedNetwork(p, FALSE)
    \/ BuilderConfigDrop(FALSE)
    \/ BuilderDrop({}, FALSE)

SpecProfile == Init /\ [][NextProfile]_vars

\* One optimization profile of a builder, its setters and getters.
NextDims ==
    \/ BuilderNew("builder", TRUE)
    \/ BuilderOptimizationProfile(1, ProfObj(1), FALSE)
    \/ \E n \in InputNames, sel \in Selectors, d \in DimSeqs, j \in Junk, a \in BOOLEAN :
           ProfileSetDimensions(1, n, sel, d, j, a, FALSE)
    \/ \E n \in InputNames, sel \in Selectors : ProfileGetDimensions(1, n, sel)
    \/ \E n \in InputNames, sel \in Selectors, d \in DimSeqs, a \in BOOLEAN :
           ProfileSetShapeValues(1, n, sel, d, a)
    \/ \E n \in InputNames, sel \in Selectors : ProfileGetShapeValues(1, n, sel)

SpecDims == Init /\ [][NextDims]_vars

\* The dimension setters and getters with slices up to and beyond MAX_DIMS.
NextLong ==
    \/ BuilderNew("builder", TRUE)
    \/ BuilderOptimizationProfile(1, ProfObj(1), FALSE)
    \/ \E n \in InputNames, sel \in Selectors, d \in DimSeqs \cup LongSeqs,
          a, ub \in BOOLEAN :
           ProfileSetDimensions(1, n, sel, d, 0, a, ub)
    \/ \E n \in InputNames, sel \in Selectors : ProfileGetDimensions(1, n, sel)

SpecLong == Init /\ [][NextLong]_vars

\* A BuilderConfig, its setters and the profiles attached to it.
NextConfig ==
    \/ BuilderNew("builder", TRUE)
    \/ BuilderConfigOp("config", FALSE)
    \/ BuilderOptimizationProfile(1, ProfObj(1), FALSE)
    \/ \E a \in BOOLEAN : ConfigAddOptimizationProfile(1, a, FALSE)
    \/ \E v \in Majors : ConfigWithStrictTypes(v, FALSE)
    \/ \E s \in {"with_version_compability", "with_exclude_lean_runtime",
                  "with_fp16", "with_int8"} : ConfigWithFlag(s, FALSE)
    \/ \E size \in Buffers : ConfigWithMaxWorkspaceSize(size, FALSE)
    \/ BuilderConfigDrop(FALSE)

SpecConfig == Init /\ [][NextConfig]_vars

\* The slices the wrapper's callers pass.
ShortSeqs == {d \in DimSeqs : Len(d) <= 2}

\* ------------------------------------- the OptimizationProfile wrapper
\* OptimizationProfile::from_inner(inner)
from_inner(i) == [st |-> "made", of |-> i, inner |-> TRUE, inner_mut |-> FALSE]

\* OptimizationProfile::from_inner_mut(inner)
from_inner_mut(i) == [st |-> "made", of |-> i, inner |-> FALSE, inner_mut |-> TRUE]

\* inner(): self.inner_mut.as_ref().map(..).or(self.inner).unwrap() is a
\* value exactly when one of the two options is Some.
inner(p) == p.inner_mut \/ p.inner

\* inner_mut(): *(self.inner_mut.as_mut().unwrap()) is a value exactly when
\* inner_mut is Some.
inner_mut(p) == p.inner_mut

\* Builder::create_optimization_profile:
\*   let profile = self.inner.create_optimization_profile()?;
\*   Ok(OptimizationProfile::from_inner(profile))
BuilderCreateOptimizationProfile(i, ptr, ub) ==
    /\ CreateProfile(i, ptr, ub)
    /\ fprof' = IF profile'[i].st = "live" THEN from_inner(i) ELSE fprof
    /\ UNCHANGED <<major, dtype, flags, workspace>>

\* OptimizationProfile::from_inner_mut on a profile the caller holds.
WrapFromInnerMut(i) ==
    /\ Running
    /\ profile[i].st = "live"
    /\ fprof # from_inner_mut(i)
    /\ fprof' = from_inner_mut(i)
    /\ UNCHANGED <<cur, nat, builder, config, network, runtime, engine, arcRefs,
                   ctx, addr, calls, last, halt>>
    /\ UNCHANGED <<asyncVars, profVars, dimVars, major, dtype, flags, workspace>>

\* The unwrap of an empty option: the thread panics before the inner call.
UnwrapPanics(op, name, select, arg) ==
    /\ Running
    /\ halt' = "panic"
    /\ phist' = Remember(Called(op, name, select, arg, "panic", FALSE, <<>>))
    /\ UNCHANGED <<cur, nat, builder, config, network, runtime, engine, arcRefs,
                   ctx, addr, calls, last, dimStore, valStore, setsLeft>>
    /\ UNCHANGED <<asyncVars, profVars, extVars>>

\* OptimizationProfile::set_min/opt/max_dimensions:
\*   self.inner_mut().set_*_dimensions(input_name, dims)
WrapSetDimensions(name, select, dims, junk, accept, ub) ==
    /\ fprof.st = "made"
    /\ IF inner_mut(fprof)
       THEN ProfileSetDimensions(fprof.of, name, select, dims, junk, accept, ub)
       ELSE /\ ~accept /\ ~ub /\ junk = 0
            /\ UnwrapPanics("set_dimensions", name, select, dims)

\* OptimizationProfile::set_min/opt/max_shape_values:
\*   self.inner_mut().set_*_shape_values(input_name, values)
WrapSetShapeValues(name, select, values, accept) ==
    /\ fprof.st = "made"
    /\ IF inner_mut(fprof)
       THEN ProfileSetShapeValues(fprof.of, name, select, values, accept)
       ELSE /\ ~accept
            /\ UnwrapPanics("set_shape_values", name, select, values)

\* OptimizationProfile::get_min/opt/max_dimensions:
\*   self.inner().get_*_dimensions(input_name)
WrapGetDimensions(name, select) ==
    /\ fprof.st = "made"
    /\ IF inner(fprof)
       THEN ProfileGetDimensions(fprof.of, name, select)
       ELSE UnwrapPanics("get_dimensions", name, select, <<>>)

\* A profile wrapper from Builder::create_optimization_profile or from
\* from_inner_mut, its setters and its getters.
NextWrap ==
    \/ BuilderNew("builder", TRUE)
    \/ BuilderCreateOptimizationProfile(1, ProfObj(1), FALSE)
    \/ WrapFromInnerMut(1)
    \/ \E n \in InputNames, sel \in Selectors, d \in ShortSeqs, a \in BOOLEAN :
           WrapSetDimensions(n, sel, d, 0, a, FALSE)
    \/ \E n \in InputNames, sel \in Selectors, d \in ShortSeqs, a \in BOOLEAN :
           WrapSetShapeValues(n, sel, d, a)
    \/ \E n \in InputNames, sel \in Selectors : WrapGetDimensions(n, sel)

SpecWrap == Init /\ [][NextWrap]_vars

\* The data-type query on a deserialized engine.
NextQuery ==
    \/ RuntimeNew("runtime", TRUE)
    \/ RuntimeDeserializeEngine("engine", {}, FALSE)
    \/ \E v \in Majors, index \in 0..Cardinality(Tensors), code \in (-1)..11 :
           EngineIoTensorType(v, index, code, FALSE)
    \/ EngineDrop({}, FALSE)

SpecQuery == Init /\ [][NextQuery]_vars

\* Execution on the contexts of one engine: every input of bind_tensor and
\* enqueue, over the lifecycle in which every Device::set succeeds.
NextExec ==
    \/ RuntimeNew("runtime", TRUE)
    \/ RuntimeDeserializeEngine("engine", {}, FALSE)
    \/ \E i \in CtxIds : \E p \in CtxPtrs(i) : CtxNew(i, p, {}, FALSE)
    \/ \E i \in CtxIds : \E p \in CtxPtrs(i) : CtxFromEngine(i, p, {}, FALSE)
    \/ \E p \in PtrSeqs : CtxFromEngineMany(p, {}, FALSE)
    \/ \E i \in CtxIds, t \in Tensors, b \in Buffers, ok \in BOOLEAN :
           CtxBindTensor(i, t, b, ok, FALSE)
    \/ \E i \in CtxIds, m \in IoMaps, k \in 0..Cardinality(Tensors), ok \in BOOLEAN :
           CtxEnqueue(i, m, k, ok, FALSE)
    \/ \E i \in CtxIds, ok \in BOOLEAN : CtxEnqueuePrebound(i, ok, FALSE)
    \/ \E i \in CtxIds : CtxDrop(i, {}, FALSE)
    \/ EngineDrop({}, FALSE)

SpecExec == Init /\ [][NextExec]_vars

\* ------------------------------------------------- asynchronous facade
\* Operations of the facade invoked so far; the next one is numbered
\* Issued + 1.
RECURSIVE IssuedBy(_)
IssuedBy(cs) ==
    IF cs = {} THEN 0
    ELSE LET c == CHOOSE x \in cs : TRUE IN (MaxOps - opsLeft[c]) + IssuedBy(cs \ {c})
Issued == IssuedBy(Callers)

\* Future::new(closure).await, first half: the closure is sent to the one
\* worker of async_cuda's runtime and the caller suspends.
FutureNew(c, op) ==
    /\ pc[c] = "idle"
    /\ opsLeft[c] > 0
    /\ queue' = Append(queue, [caller |-> c, op |-> op, seq |-> Issued + 1])
    /\ pc' = [pc EXCEPT ![c] = "awaiting"]
    /\ opsLeft' = [opsLeft EXCEPT ![c] = @ - 1]
    /\ UNCHANGED <<work, running, done>>

\* A facade method that calls the synchronous layer in place: the native
\* call starts on the thread of the caller.
CallInPlace(c, op) ==
    /\ pc[c] = "idle"
    /\ opsLeft[c] > 0
    /\ running' = running \cup {[thread |-> CallerThread(c), caller |-> c, op |-> op,
                                  seq |-> Issued + 1]}
    /\ pc' = [pc EXCEPT ![c] = "calling"]
    /\ opsLeft' = [opsLeft EXCEPT ![c] = @ - 1]
    /\ UNCHANGED <<queue, work, facade, done>>

\* A Builder::new whose future is awaited without the closure being sent.
FacadeBuilderNewNotSent(c) ==
    /\ ~facade[c].builder
    /\ pc[c] = "idle"
    /\ opsLeft[c] > 0
    /\ pc' = [pc EXCEPT ![c] = "awaiting"]
    /\ opsLeft' = [opsLeft EXCEPT ![c] = @ - 1]
    /\ UNCHANGED <<queue, work, running, done, facade>>
    /\ UNCHANGED syncVars

\* Builder::new: Future::new(InnerBuilder::new).await
FacadeBuilderNew(c) ==
    /\ ~facade[c].builder
    /\ FutureNew(c, "Builder::new")
    /\ UNCHANGED facade
    /\ UNCHANGED syncVars

\* Builder::create_optimization_profile (and add_ / with_): in place.
FacadeCreateOptimizationProfile(c) ==
    /\ facade[c].builder
    /\ CallInPlace(c, "Builder::create_optimization_profile")
    /\ UNCHANGED syncVars

\* Builder::config: Future::new(|| self.inner.config()).await
FacadeBuilderConfig(c) ==
    /\ facade[c].builder
    /\ FutureNew(c, "Builder::config")
    /\ UNCHANGED facade
    /\ UNCHANGED syncVars

\* Builder::network_definition: in place.
FacadeNetworkDefinition(c) ==
    /\ facade[c].builder
    /\ CallInPlace(c, "Builder::network_definition")
    /\ UNCHANGED syncVars

\* Builder::build_serialized_network: Future::new(move || ...).await
FacadeBuildSerializedNetwork(c) ==
    /\ facade[c].builder
    /\ FutureNew(c, "Builder::build_serialized_network")
    /\ UNCHANGED facade
    /\ UNCHANGED syncVars

\* Builder::platform_has_fast_int8: in place.
FacadePlatformHasFastInt8(c) ==
    /\ facade[c].builder
    /\ CallInPlace(c, "Builder::platform_has_fast_int8")
    /\ UNCHANGED syncVars

\* Builder::platform_has_fast_fp16: in place.
FacadePlatformHasFastFp16(c) ==
    /\ facade[c].builder
    /\ CallInPlace(c, "Builder::platform_has_fast_fp16")
    /\ UNCHANGED syncVars

\* Runtime::new: Future::new(InnerRuntime::new).await
FacadeRuntimeNew(c) ==
    /\ ~facade[c].runtime
    /\ FutureNew(c, "Runtime::new")
    /\ UNCHANGED facade
    /\ UNCHANGED syncVars

\* Runtime::set_engine_host_code_allowed: in place.
FacadeSetEngineHostCodeAllowed(c) ==
    /\ facade[c].runtime
    /\ CallInPlace(c, "Runtime::set_engine_host_code_allowed")
    /\ UNCHANGED syncVars

\* Runtime::deserialize_engine_from_plan(self, plan): self moves into the
\* closure.
FacadeDeserializeEngineFromPlan(c) ==
    /\ facade[c].runtime
    /\ FutureNew(c, "Runtime::deserialize_engine_from_plan")
    /\ facade' = [facade EXCEPT ![c].runtime = FALSE]
    /\ UNCHANGED syncVars

\* Runtime::deserialize_engine(self, buffer): self moves into the closure.
FacadeDeserializeEngine(c) ==
    /\ facade[c].runtime
    /\ FutureNew(c, "Runtime::deserialize_engine")
    /\ facade' = [facade EXCEPT ![c].runtime = FALSE]
    /\ UNCHANGED syncVars

\* The worker takes the oldest closure and starts running it.
WorkerStart ==
    /\ work = <<>>
    /\ queue # <<>>
    /\ work' = <<Head(queue)>>
    /\ queue' = Tail(queue)
    /\ running' = running \cup {[thread |-> WORKER, caller |-> Head(queue).caller,
                                  op |-> Head(queue).op, seq |-> Head(queue).seq]}
    /\ UNCHANGED <<pc, opsLeft, facade, done>>
    /\ UNCHANGED syncVars

\* What the caller holds once `op` returned with `ok`.
FacadeAfter(f, op, ok) ==
    CASE op = "Builder::new" -> [f EXCEPT !.builder = ok]
      [] op = "Runtime::new" -> [f EXCEPT !.runtime = TRUE]
      [] OTHER -> f

\* The operations whose synchronous body calls Device::set.
SetsDevice(op) ==
    op \in {"Runtime::deserialize_engine", "Runtime::deserialize_engine_from_plan"}

\* What the synchronous operation behind `op` returns when its native
\* factory call returns a non-null pointer (ptrOk) and its Device::set, if it
\* has one, succeeds (setOk): Builder::new, build_serialized_network and
\* deserialize go through result!, deserialize after Device::set(..)?;
\* Builder::config and Runtime::new wrap the pointer as it is.
SyncReturn(op, ptrOk, setOk) ==
    CASE op \in {"Builder::new", "Builder::build_serialized_network"} ->
             [res |-> IF ptrOk THEN "ok" ELSE "err", null |-> FALSE]
      [] SetsDevice(op) ->
             [res |-> IF setOk /\ ptrOk THEN "ok" ELSE "err", null |-> FALSE]
      [] OTHER -> [res |-> "ok", null |-> ~ptrOk]

\* A facade method that turns every result of its closure into a success.
FacadeReturnAlwaysOk(op, v) == [v EXCEPT !.res = "ok"]

\* What the facade method makes of the value v its closure returned:
\* `.await?` then Ok(Builder { inner }), `.await`, `.map(Engine::from_inner)`.
FacadeReturn(op, v) == v

\* The closure returns; its result resolves the future of the caller.
WorkerFinish(ptrOk, setOk) ==
    /\ work # <<>>
    /\ setOk \/ SetsDevice(work[1].op)
    /\ LET t == work[1]
           v == FacadeReturn(t.op, SyncReturn(t.op, ptrOk, setOk))
       IN
         /\ running' = running \ {[thread |-> WORKER, caller |-> t.caller, op |-> t.op,
                                    seq |-> t.seq]}
         /\ pc' = [pc EXCEPT ![t.caller] = "idle"]
         /\ facade' = [facade EXCEPT ![t.caller] = FacadeAfter(@, t.op, v.res = "ok")]
         /\ done' = [done EXCEPT ![t.caller] =
                        [op |-> t.op, thread |-> WORKER, ptrOk |-> ptrOk,
                         setOk |-> setOk, value |-> v]]
    /\ work' = <<>>
    /\ UNCHANGED <<queue, opsLeft>>
    /\ UNCHANGED syncVars

\* A call made in place returns on the thread of the caller.
CallInPlaceReturn(c) ==
    /\ pc[c] = "calling"
    /\ \E r \in running :
         /\ r.thread = CallerThread(c)
         /\ running' = running \ {r}
         /\ done' = [done EXCEPT ![c] = [NoDone EXCEPT !.op = r.op,
                                                      !.thread = CallerThread(c)]]
    /\ pc' = [pc EXCEPT ![c] = "idle"]
    /\ UNCHANGED <<queue, work, opsLeft, facade>>
    /\ UNCHANGED syncVars

\* Callers of the facade and its worker, interleaved.
NextAsync ==
    \/ \E c \in Callers : FacadeBuilderNew(c)
    \/ \E c \in Callers : FacadeCreateOptimizationProfile(c)
    \/ \E c \in Callers : FacadeBuilderConfig(c)
    \/ \E c \in Callers : FacadeNetworkDefinition(c)
    \/ \E c \in Callers : FacadeBuildSerializedNetwork(c)
    \/ \E c \in Callers : FacadePlatformHasFastInt8(c)
    \/ \E c \in Callers : FacadePlatformHasFastFp16(c)
    \/ \E c \in Callers : FacadeRuntimeNew(c)
    \/ \E c \in Callers : FacadeSetEngineHostCodeAllowed(c)
    \/ \E c \in Callers : FacadeDeserializeEngineFromPlan(c)
    \/ \E c \in Callers : FacadeDeserializeEngine(c)
    \/ WorkerStart
    \/ \E ptrOk, setOk \in BOOLEAN : WorkerFinish(ptrOk, setOk)
    \/ \E c \in Callers : CallInPlaceReturn(c)

SpecAsync == Init /\ [][NextAsync]_vars

\* The facade with a worker that is scheduled fairly: a closure that can be
\* started is started, a closure that is running returns.
SpecAsyncFair ==
    /\ SpecAsync
    /\ WF_vars(WorkerStart)
    /\ WF_vars(\E ptrOk, setOk \in BOOLEAN : WorkerFinish(ptrOk, setOk))

\* ================================================================ claims
Destroys == {k \in 1..Len(calls) : calls[k].op = "destroy" /\ calls[k].obj # NULL}

\* C1: every native destroy runs with the device current on which the object
\* was created (Builder, BuilderConfig, Engine, ExecutionContext, Runtime).
C1_DestroyOnCreationDevice ==
    \A k \in Destroys : calls[k].cur = nat[calls[k].obj].dev

\* The native objects the wrappers own, by wrapper.
Owned == {"builder", "config", "runtime", "engine"} \cup {CtxObj(i) : i \in CtxIds}
WrapperSt(o) ==
    CASE o = "builder" -> builder.st
      [] o = "config" -> config.st
      [] o = "runtime" -> runtime.st
      [] o = "engine" -> engine.st
      [] OTHER -> "none"
WrapperPtr(o) ==
    CASE o = "builder" -> builder.addr
      [] o = "config" -> config.addr
      [] o = "runtime" -> runtime.addr
      [] o = "engine" -> engine.internal
      [] OTHER -> ctx[CHOOSE i \in CtxIds : CtxObj(i) = o].internal
StateOf(o) ==
    IF o \in {"builder", "config", "runtime", "engine"} THEN WrapperSt(o)
    ELSE ctx[CHOOSE i \in CtxIds : CtxObj(i) = o].st
Gone(o) == StateOf(o) = "dropped" /\ WrapperPtr(o) = o
Held(o) == StateOf(o) \in {"owned", "shared", "inEngine", "live"} /\ WrapperPtr(o) = o

\* C2: each native object owned by a wrapper is destroyed exactly once: never
\* twice, once when its last owner is gone, not before, and no native call is
\* issued on an object that was already destroyed.
C2_DestroyedExactlyOnce ==
    /\ \A o \in Owned : nat[o].destroys <= 1
    /\ \A k \in 1..Len(calls) : calls[k].st # "destroyed"
    /\ halt = "no" =>
          \A o \in Owned :
              /\ Gone(o) => nat[o].destroys = 1 /\ nat[o].st = "destroyed"
              /\ Held(o) => nat[o].destroys = 0 /\ nat[o].st = "live"

\* The last context of a shared engine was dropped and took engine and
\* runtime with it, each destroyed once.
C2_Witness ==
    /\ halt = "no"
    /\ last.op = "drop ExecutionContext"
    /\ ctx[last.i].parent
    /\ Len(calls) = 3
    /\ Gone("engine") /\ Gone("runtime") /\ Gone(CtxObj(last.i))
    /\ nat["engine"].destroys = 1 /\ nat["runtime"].destroys = 1

\* Owners of the engine: the caller's Engine, the caller's Arcs, the contexts.
EngineOwners ==
    (IF engine.st = "owned" THEN 1 ELSE 0) + arcRefs + Cardinality(Sharing)

\* C3: a shared engine's native object lives as long as one reference to it
\* is left, the caller's or a context's, and is destroyed when the last goes.
C3_SharedEngineRefCounted ==
    halt = "no" /\ nat["engine"].st # "none" =>
        /\ Sharing # {} => nat["engine"].st = "live"
        /\ nat["engine"].st = "live" <=> EngineOwners > 0
        /\ nat["engine"].st = "destroyed" <=> EngineOwners = 0
        /\ nat["engine"].st = "destroyed" => nat["engine"].destroys = 1

\* The caller released its last Arc while a context still shares the engine.
C3_Witness ==
    /\ halt = "no"
    /\ last.op = "drop Arc<Engine>"
    /\ arcRefs = 0
    /\ Sharing # {}
    /\ nat["engine"].st = "live"

\* Contexts that hold, or held, a reference to the engine.
Sharers == {i \in CtxIds : ctx[i].parent /\ ctx[i].st \in {"live", "dropped"}}
ExecOps == {"ExecutionContext::bind_tensor", "ExecutionContext::enqueue",
            "ExecutionContext::enqueue_prebound"}

\* C4: after from_engine_many(engine, N), N >= 2, every context that survives
\* the others is usable: its native context and the engine are live, bind
\* and enqueue act on live objects, and the engine is destroyed only after
\* the N-th context.
C4_ManySurvivorsUsable ==
    Cardinality(Sharers) >= 2 =>
        /\ \A i \in Sharing :
              /\ nat[ctx[i].internal].st = "live"
              /\ nat["engine"].st = "live"
              /\ nat["runtime"].st = "live"
        /\ last.op \in ExecOps =>
              /\ \A k \in 1..Len(calls) : calls[k].st = "live"
              /\ nat["engine"].st = "live"
        /\ nat["engine"].st = "destroyed" => Sharing = {}

\* One of the contexts of from_engine_many was destroyed and a survivor has
\* just enqueued with a tensor bound.
C4_Witness ==
    /\ Cardinality(Sharers) >= 2
    /\ \E i \in Sharers : ctx[i].st = "dropped"
    /\ last.op = "ExecutionContext::enqueue"
    /\ last.res = "ok"
    /\ Len(last.names) > 0
    /\ ctx[last.i].st = "live"

\* C5: after a successful bind_tensor(name, buffer) the address bound to
\* `name` in the context is the device address of the buffer.
C5_BindStoresBufferAddress ==
    (last.op = "ExecutionContext::bind_tensor" /\ last.res = "ok") =>
        addr[last.i][last.names[1]] = last.bufs[1]

SubmitCalls == {k \in 1..Len(calls) : calls[k].op = "enqueueV3"}
BindCalls == {k \in 1..Len(calls) : calls[k].op = "setTensorAddress"}

\* C6: enqueue submits only after a bind of every tensor of the map
\* succeeded; a failed bind returns an error without submitting; with every
\* bind successful it returns Ok iff the native submit returns true.
C6_EnqueueBindsThenSubmits ==
    last.op = "ExecutionContext::enqueue" =>
        /\ SubmitCalls # {} <=> last.n = 0
        /\ \A s \in SubmitCalls :
              /\ s = Len(calls)
              /\ \A j \in 1..Len(last.names) :
                    \E k \in BindCalls : k < s /\ calls[k].name = last.names[j]
        /\ last.n # 0 => last.res = "err" /\ SubmitCalls = {}
        /\ last.n = 0 => (last.res = "ok" <=> last.submitOk)

\* The second of two binds failed: an error, and nothing submitted.
C6_Witness ==
    /\ last.op = "ExecutionContext::enqueue"
    /\ Len(last.names) = 2
    /\ last.n = 2
    /\ last.res = "err"
    /\ Cardinality(BindCalls) = 2

\* The device recorded in the handle a native object belongs to.
HandleDevice(o) ==
    CASE o = "builder" -> builder.device
      [] o \in {"runtime", "engine"} -> runtime.device
      [] OTHER -> EngineDevice

\* C7: at every native call on a Builder, Engine, ExecutionContext or
\* Runtime the thread's current device is the device recorded in the handle.
C7_CallsOnHandleDevice ==
    \A k \in 1..Len(calls) :
        calls[k].obj \in (Owned \ {"config"}) => calls[k].cur = HandleDevice(calls[k].obj)

\* C8: a Device::set that fails outside a destructor (context creation,
\* deserialize) makes the operation return an error; it does not abort.
\* (An operation on a handle whose pointer is null may crash before it
\* returns; that is not a device-set failure.)
C8_SetFailureOutsideDropIsError ==
    (last.setFailed /\ ~last.dropSetFailed /\ halt # "crash") =>
        (last.res = "err" /\ halt = "no")

\* C9: of the native calls issued through the asynchronous facade, at most
\* one is in progress at any instant.
C9_OneNativeCallAtATime == Cardinality(running) <= 1

\* C10: every native call issued through the asynchronous facade runs on the
\* worker, never on the thread of the caller.
C10_NativeCallsOnWorker == \A r \in running : r.thread = WORKER

\* Operations invoked and not yet completed, by their number.
PendingSeqs == {queue[k].seq : k \in 1..Len(queue)} \cup {r.seq : r \in running}

\* C11: operations of the facade execute in the order they were invoked: no
\* native call is in progress while an operation invoked earlier has not
\* completed.
C11_FifoExecution == \A r \in running : \A n \in PendingSeqs : n >= r.seq

ClosuresOf(c) ==
    Cardinality({k \in 1..Len(queue) : queue[k].caller = c})
        + (IF work # <<>> /\ work[1].caller = c THEN 1 ELSE 0)

AttachOps == {"BuilderConfig::add_optimization_profile",
              "BuilderConfig::with_optimization_profile"}

\* C14: add_optimization_profile and with_optimization_profile return Ok iff
\* the native attach returned an index >= 0; a negative index is an error,
\* and a profile reported attached is the one the native config holds at
\* that index.
C14_AttachOkIffIndexNonNegative ==
    last.op \in AttachOps =>
        /\ last.res = "ok" <=> last.n >= 0
        /\ last.n < 0 => last.res = "err"
        /\ last.res = "ok" =>
              /\ last.n < Len(attached)
              /\ attached[last.n + 1] = profile[last.i].addr

\* A second attach rejected after a first one was accepted.
C14_Witness ==
    /\ last.op \in AttachOps
    /\ last.i = 2
    /\ last.n = -1
    /\ last.res = "err"
    /\ Len(attached) = 1

\* C15: once the Builder is destroyed nothing alive refers to a native
\* profile it created: no OptimizationProfile, and no BuilderConfig with a
\* profile attached.
C15_NoProfileHeldAfterBuilder ==
    nat["builder"].st = "destroyed" =>
        /\ LiveProfiles = {}
        /\ ~(config.st = "owned" /\ attached # <<>>)

\* C16: build_serialized_network consumes its BuilderConfig: when it returns,
\* Ok or Err, the config's native object has been destroyed exactly once,
\* after the native build call, and the wrapper is gone, so that no second
\* build can take it.
C16_BuildConsumesConfig ==
    (last.op = "Builder::build_serialized_network" /\ halt = "no"
        /\ config.addr # NULL) =>
        /\ config.st = "dropped"
        /\ nat[config.addr].st = "destroyed"
        /\ nat[config.addr].destroys = 1
        /\ Len(calls) = 2
        /\ calls[1].op = "buildSerializedNetwork"
        /\ calls[2].op = "destroy" /\ calls[2].obj = config.addr
        /\ calls[2].st = "live"

\* A build that failed: the config is destroyed all the same.
C16_Witness ==
    /\ last.op = "Builder::build_serialized_network"
    /\ last.res = "err"
    /\ halt = "no"
    /\ config.st = "dropped"
    /\ nat["config"].destroys = 1

\* C17: a native factory call that returns null makes the operation return
\* an error, and no wrapper holds a null pointer.
C17_NoNullWrapper ==
    /\ builder.st # "none" => builder.addr # NULL
    /\ config.st # "none" => config.addr # NULL
    /\ network.st # "none" => network.addr # NULL
    /\ runtime.st # "none" => runtime.addr # NULL
    /\ engine.st # "none" => engine.internal # NULL
    /\ \A i \in CtxIds : ctx[i].st # "none" => ctx[i].internal # NULL
    /\ \A i \in ProfIds : profile[i].st # "none" => profile[i].addr # NULL

DeserializeCalls == {k \in 1..Len(calls) : calls[k].op = "deserializeCudaEngine"}

C19_DeviceInherited ==
    /\ [](/\ runtime.st # "none" /\ runtime.addr # NULL =>
                runtime.device = nat[runtime.addr].dev
          /\ builder.st # "none" => builder.device = nat[builder.addr].dev
          /\ engine.st # "none" => EngineDevice = runtime.device
          /\ \A i \in CtxIds : ctx[i].st # "none" => ctx[i].device = EngineDevice)
    /\ [][/\ runtime.st # "none" => runtime'.device = runtime.device
          /\ builder.st # "none" => builder'.device = builder.device
          /\ \A i \in CtxIds : ctx[i].st # "none" => ctx'[i].device = ctx[i].device]_vars

\* Contexts made by two constructors on an engine of device 1, after the
\* thread moved to device 0.
C19_Witness ==
    /\ cur = 0
    /\ EngineDevice = 1
    /\ \E i, j \in CtxIds :
          /\ ctx[i].st = "live" /\ ctx[i].parent /\ ctx[i].device = 1
          /\ ctx[j].st = "live" /\ ~ctx[j].parent /\ ctx[j].device = 1

\* C20: a get_<sel>_dimensions (get_<sel>_shape_values) right after a
\* set_<sel>_dimensions (set_<sel>_shape_values) that returned true, with
\* the same selector and input name, returns the sequence that was set.
C20_SetGetRoundTrip ==
    Len(phist) = 2 =>
        LET set == phist[1]
            get == phist[2]
        IN (/\ set.ret
            /\ set.name = get.name /\ set.select = get.select
            /\ \/ set.op = "set_dimensions" /\ get.op = "get_dimensions"
               \/ set.op = "set_shape_values" /\ get.op = "get_shape_values")
           => (get.ret /\ get.value = set.arg)

\* Dimensions of the full length MAX_DIMS set for Max and read back.
C20_Witness ==
    /\ Len(phist) = 2
    /\ phist[1].op = "set_dimensions" /\ phist[1].ret
    /\ phist[1].select = 2 /\ Len(phist[1].arg) = MAX_DIMS
    /\ phist[2].op = "get_dimensions"
    /\ phist[2].name = phist[1].name /\ phist[2].select = 2
    /\ phist[2].value = phist[1].arg


\* The last call on the profile.
LastCall == phist[Len(phist)]

\* C21: on an input name for which no dimensions (shape values) were ever
\* set, get_*_dimensions returns None and get_*_shape_values returns
\* Ok(None); a getter returns Some(<<>>) only when the native count is zero.
C21_UnsetIsNotEmpty ==
    phist # <<>> =>
        /\ LastCall.op = "get_dimensions" =>
              /\ (\A sel \in Selectors : dimStore[LastCall.name][sel].nbDims < 0)
                     => ~LastCall.ret
              /\ (LastCall.ret /\ LastCall.value = <<>>)
                     => dimStore[LastCall.name][LastCall.select].nbDims = 0
        /\ LastCall.op = "get_shape_values" =>
              /\ valStore[LastCall.name].nb < 0
                     => (LastCall.res = "ok" /\ ~LastCall.ret)
              /\ (LastCall.ret /\ LastCall.value = <<>>)
                     => valStore[LastCall.name].nb = 0

\* A getter that answered None for an input whose only setter call was
\* rejected.
C21_Witness ==
    /\ Len(phist) = 2
    /\ phist[1].op = "set_dimensions" /\ ~phist[1].ret
    /\ phist[2].op = "get_dimensions" /\ ~phist[2].ret
    /\ \A sel \in Selectors : dimStore[phist[2].name][sel].nbDims < 0

\* C22: get_*_shape_values returns Ok(None) whenever the values of its own
\* selector were never assigned for the input name, also when those of
\* another selector were.
C22_UnsetSelectorIsNone ==
    (phist # <<>> /\ LastCall.op = "get_shape_values"
       /\ valStore[LastCall.name].v[LastCall.select].null)
        => (LastCall.res = "ok" /\ ~LastCall.ret)


\* C24: when enqueue fails at the bind of the k-th tensor of the map, the
\* k - 1 earlier binds stay as they were made (no call puts an earlier
\* address back), no tensor after the k-th is bound, nothing is submitted.
C24_FailedBindKeepsEarlierBinds ==
    (last.op = "ExecutionContext::enqueue" /\ last.n > 0 /\ halt = "no") =>
        /\ Len(calls) = 2 * last.n
        /\ \A j \in 1..last.n :
              /\ calls[2 * j - 1].op = "getTensorAddress"
              /\ calls[2 * j].op = "setTensorAddress"
              /\ calls[2 * j].name = last.names[j]
              /\ calls[2 * j].ptr = BoundPtr(last.bufs[j])
        /\ \A j \in 1..(last.n - 1) :
              addr[last.i][last.names[j]] = BoundPtr(last.bufs[j])
        /\ SubmitCalls = {}
        /\ last.res = "err"

\* The first of two binds failed: the second tensor was left alone.
C24_Witness ==
    /\ last.op = "ExecutionContext::enqueue"
    /\ halt = "no"
    /\ Len(last.names) = 2
    /\ last.n = 1
    /\ BindCalls = {2}

\* The destroy calls of the operation on native execution contexts, and on
\* the engine.
CtxDestroys == {k \in Destroys : calls[k].obj \in {CtxObj(i) : i \in CtxIds}}
EngineDestroys == {k \in Destroys : calls[k].obj = "engine"}

\* C25: the native context of an ExecutionContext, however it was made, is
\* destroyed before the native engine: within one drop the context's destroy
\* comes first, and the engine is never destroyed while an ExecutionContext
\* still has a live native context.
C25_ContextDestroyedBeforeEngine ==
    /\ \A c \in CtxDestroys : \A e \in EngineDestroys : c < e
    /\ \A i \in CtxIds :
          (ctx[i].st = "live" /\ nat[ctx[i].internal].st = "live")
              => nat["engine"].st = "live"
    /\ nat["engine"].st = "destroyed" =>
          \A i \in CtxIds : ctx[i].st # "none" => nat[ctx[i].internal].st = "destroyed"

\* Dropping the one context made by from_engine destroyed the context and
\* then the engine.
C25_Witness ==
    /\ last.op = "drop ExecutionContext"
    /\ halt = "no"
    /\ CtxDestroys = {1}
    /\ EngineDestroys = {2}
    /\ arcRefs = 0

RuntimeDestroys == {k \in Destroys : calls[k].obj = "runtime"}

\* C26: the runtime of an Engine is destroyed only after the native engine,
\* and once; a deserialize that fails destroys the runtime before it returns.
C26_RuntimeOutlivesEngine ==
    /\ nat["runtime"].destroys <= 1
    /\ engine.st # "none" =>
          /\ nat["runtime"].st = "destroyed" => nat[engine.internal].st = "destroyed"
          /\ \A r \in RuntimeDestroys : \E e \in EngineDestroys : e < r
          /\ (halt = "no" /\ engine.st = "dropped" /\ runtime.addr # NULL) =>
                 nat["runtime"].destroys = 1
    /\ (last.op = "Runtime::deserialize_engine" /\ last.res = "err"
          /\ halt = "no" /\ runtime.addr # NULL) =>
          /\ RuntimeDestroys = {Len(calls)}
          /\ nat["runtime"].st = "destroyed"
          /\ nat["runtime"].destroys = 1

\* The caller dropped its Engine: the engine went first, its runtime second.
C26_Witness ==
    /\ last.op = "drop Engine"
    /\ halt = "no"
    /\ EngineDestroys = {1}
    /\ RuntimeDestroys = {2}

\* C27: when from_engine_many fails on a null context, every non-null
\* context the call created is destroyed once, and the engine after them.
C27_ManyFailureLeaksNothing ==
    (last.op = "ExecutionContext::from_engine_many" /\ last.res = "err"
       /\ halt = "no") =>
        /\ \A k \in 1..Len(last.ptrs) :
              last.ptrs[k] # NULL =>
                  /\ nat[last.ptrs[k]].st = "destroyed"
                  /\ nat[last.ptrs[k]].destroys = 1
        /\ \A c \in CtxDestroys : \A e \in EngineDestroys : c < e
        /\ nat["engine"].st = "destroyed"


\* C29: set_*_dimensions never writes an element of index >= MAX_DIMS of the
\* native array xdims.d, whatever the length of the slice, and
\* get_*_dimensions never writes beyond the MAX_DIMS elements of its buffer.
C29_NoWriteBeyondMaxDims ==
    phist # <<>> =>
        /\ LastCall.op = "set_dimensions" =>
              \A k \in SetDimensionsWrites(LastCall.arg) : k < MAX_DIMS
        /\ LastCall.op = "get_dimensions" =>
              \A k \in GetDimensionsWrites(dimStore[LastCall.name][LastCall.select].nbDims) :
                  k < MAX_DIMS


\* The order in which the native codes 0..10 name the data types.
DataTypeOrder == <<"Float", "Half", "Int8", "Int32", "Bool", "Uint8", "Fp8",
                   "Bf16", "Int64", "Int4", "Fp4">>

\* C23: io_tensor_type maps the native codes 0..10 to Float .. Fp4 in that
\* order, panics for any other code, and returns no data type that the
\* native layer did not report for the tensor.
C23_DataTypeFromNativeCode ==
    last.op = "Engine::io_tensor_type" =>
        /\ \A c \in dtype.reported :
              /\ c \in 0..10 => (halt = "no" /\ dtype.ret = DataTypeOrder[c + 1])
              /\ c \notin 0..10 => (halt = "panic" /\ dtype.ret = "none")
        /\ dtype.ret # "none" =>
              \E c \in dtype.reported : c \in 0..10 /\ DataTypeOrder[c + 1] = dtype.ret


\* The flags named by the setFlag calls of the last operation.
FlagsCalled == {calls[k].name : k \in {j \in 1..Len(calls) : calls[j].op = "setFlag"}}
FlagSetters == {"with_strict_types", "with_version_compability",
                "with_exclude_lean_runtime", "with_fp16", "with_int8"}

C28_WrapperNeverPanics ==
    fprof.st = "made" => /\ halt # "panic"
                         /\ phist # <<>> => LastCall.res # "panic"

====
